---------------------------- MODULE Spec2Model ----------------------------
(***************************************************************************)
(* notion-user-sync.                                                       *)
(*                                                                         *)
(* Pipeline B (hubspot_webhook_handler.py): the HubSpot webhook handler    *)
(* that classifies an inbound event, fetches the record from the CRM,      *)
(* capitalises first/last name and writes the names back when they change; *)
(* specification Spec.                                                     *)
(*                                                                         *)
(* Pipeline A (notion_hubspot_sync.py): sync_user_to_hubspot, which reads  *)
(* a workspace page, creates or updates the CRM user and writes the CRM    *)
(* user id back to the page; specification SyncSpec.                       *)
(*                                                                         *)
(* capitalize_name, the two copies of it, applied to every string over a   *)
(* small alphabet; specification NormSpec.                                 *)
(*                                                                         *)
(* Pipeline B with the CRM in a loop, every accepted write coming back as  *)
(* property-change events; specification EchoSpec.                         *)
(*                                                                         *)
(* Two callers of sync_user_to_hubspot for one page, their requests        *)
(* interleaved; specification ConcurrentSpec.                              *)
(*                                                                         *)
(* handle_notion_webhook (notion_webhook_handler.py), which inspects a     *)
(* workspace event and calls sync_user_to_hubspot; specification           *)
(* NotionSpec.                                                             *)
(*                                                                         *)
(* Python dicts are functions whose DOMAIN is the set of keys present.     *)
(* Names (values that reach capitalize_name) are sequences of one-char     *)
(* strings, so trimming and upper-casing are computed character by         *)
(* character.  Keyword-like strings (event types, property names, object   *)
(* types) are TLA+ strings; lower(), upper(), startswith() and the         *)
(* substring test are tabulated over the vocabulary the events use.        *)
(***************************************************************************)
EXTENDS Integers, Sequences, FiniteSets, TLC

(***************************************************************************)
(* Bounds.                                                                 *)
(***************************************************************************)
\* longest array payload
MaxBatch == 2
\* deliveries of the same payload (the first one plus redeliveries)
MaxRequests == 2

(***************************************************************************)
(* Names used in events and CRM records.                                   *)
(***************************************************************************)
NoName == << >>
jo == <<"j", "o">>
Jo == <<"J", "o">>
al == <<" ", "a", "l">>
lee == <<"l", "e", "e">>
Lee == <<"L", "e", "e">>
digits == <<"5", "5">>

(***************************************************************************)
(* str.strip(), str.upper() on one character, capitalize_name and          *)
(* normalize_user_name.                                                    *)
(***************************************************************************)
IsSpace(c) == c \in {" ", "\t"}

RECURSIVE LStrip(_)
LStrip(s) == IF s # << >> /\ IsSpace(Head(s)) THEN LStrip(Tail(s)) ELSE s

RECURSIVE RStrip(_)
RStrip(s) ==
    IF s # << >> /\ IsSpace(s[Len(s)]) THEN RStrip(SubSeq(s, 1, Len(s) - 1)) ELSE s

Strip(s) == RStrip(LStrip(s))

\* str.upper() of a one-character string; the German sharp s has a
\* two-character upper-case form
UpperChar(c) ==
    CASE c = "a" -> <<"A">>
      [] c = "e" -> <<"E">>
      [] c = "j" -> <<"J">>
      [] c = "l" -> <<"L">>
      [] c = "o" -> <<"O">>
      [] c = "ß" -> <<"S", "S">>
      [] OTHER -> <<c>>

\* capitalize_name that capitalizes before it trims
capitalize_name_UpperThenTrim(name) ==
    IF name = << >> \/ Strip(name) = << >>
    THEN name
    ELSE Strip(UpperChar(name[1]) \o Tail(name))

capitalize_name(name) ==
    IF name = << >> \/ Strip(name) = << >>
    THEN name
    ELSE LET n == Strip(name)
         IN  IF Len(n) > 1 THEN UpperChar(n[1]) \o Tail(n) ELSE UpperChar(n[1])

normalize_user_name(first_name, last_name) ==
    << IF first_name # << >> THEN capitalize_name(first_name) ELSE << >>,
       IF last_name # << >> THEN capitalize_name(last_name) ELSE << >> >>

(***************************************************************************)
(* Dict helpers: key in d, d.get(k, default), a or b.                      *)
(***************************************************************************)
EmptyDict == [k \in {} |-> ""]
Has(d, k) == k \in DOMAIN d
Get(d, k, dflt) == IF k \in DOMAIN d THEN d[k] ELSE dflt
IsEmptyDict(d) == DOMAIN d = {}
OrName(a, b) == IF a # << >> THEN a ELSE b
OrStr(a, b) == IF a # "" THEN a ELSE b

(***************************************************************************)
(* str.lower(), str.upper(), startswith and substring over the vocabulary. *)
(***************************************************************************)
Lower(s) ==
    CASE s = "object.propertyChange" -> "object.propertychange"
      [] s = "Contact.Created" -> "contact.created"
      [] s = "firstName" -> "firstname"
      [] s = "lastName" -> "lastname"
      [] s = "Last Name" -> "last name"
      [] s = "First Name" -> "first name"
      [] s = "USER" -> "user"
      [] s = "CONTACT" -> "contact"
      [] s = "Contact" -> "contact"
      [] s = "DEAL" -> "deal"
      [] OTHER -> s

Upper(s) ==
    CASE s = "user" -> "USER"
      [] s = "contact" -> "CONTACT"
      [] s = "Contact" -> "CONTACT"
      [] s = "user_defined" -> "USER_DEFINED"
      [] s = "deal" -> "DEAL"
      [] OTHER -> s

StartsWith(s, prefix) ==
    CASE prefix = "contact." -> s \in {"contact.created"}
      [] prefix = "object." ->
            s \in {"object.propertychange", "object.propertyChange", "object.creation"}
      [] OTHER -> FALSE

Contains(s, sub) ==
    CASE sub = "USER" -> s \in {"USER", "USER_DEFINED"}
      [] sub = "CONTACT" -> s \in {"CONTACT"}
      [] sub = "contact" -> s \in {"contact", "contact.created"}
      [] sub = "propertychange" -> s \in {"object.propertychange"}
      [] sub = "propertyChange" -> s \in {"object.propertyChange"}
      [] OTHER -> FALSE

(***************************************************************************)
(* handle_single_hubspot_event, classification part: the payload formats   *)
(* are tried in the order of the code; a target is the pair                *)
(* (user_id, user_data).  A user_id of None and one of "" are both falsy   *)
(* and are the empty string here; a user_data of None and one of {} are    *)
(* both falsy and are the empty dict.                                      *)
(***************************************************************************)
NameProps == {"firstname", "lastname", "first name", "last name"}

NoTarget == [uid |-> "", ud |-> EmptyDict]

\* Format 0: expanded object format with propertyChange
PropertyChangeFormat(event) ==
    LET subscription_type == Lower(Get(event, "subscriptionType", ""))
        property_name == Lower(Get(event, "propertyName", ""))
    IN  IF property_name \in NameProps
        THEN [uid |-> event["objectId"],
              ud  |-> ("propertyName" :> property_name)
                      @@ ("propertyValue" :> Get(event, "propertyValue", NoName))
                      @@ ("objectTypeId" :> Get(event, "objectTypeId", ""))
                      @@ ("subscriptionType" :> subscription_type)]
        ELSE NoTarget

\* Format 1: contact-specific webhook format
ContactFormat(event) ==
    LET contact_id == OrStr(Get(event, "contactId", ""), Get(event, "objectId", ""))
        props == Get(event, "properties", EmptyDict)
        top == [k \in {"firstname", "lastname", "email"} \cap DOMAIN event |-> event[k]]
    IN  IF contact_id # ""
        THEN [uid |-> contact_id, ud |-> IF IsEmptyDict(props) THEN top ELSE props]
        ELSE NoTarget

UserEventTypes ==
    {"user.created", "user.updated", "user.propertychange", "user.deleted",
     "contact.created", "contact.updated", "contact.propertychange"}

\* Format 1 (second): expanded object support format
ExpandedFormat(event) ==
    LET object_type == Upper(Get(event, "objectType", ""))
        expanded_event_type == Lower(Get(event, "eventType", ""))
        is_user_event ==
            \/ Contains(object_type, "USER")
            \/ Contains(object_type, "CONTACT")
            \/ StartsWith(expanded_event_type, "object.")
            \/ StartsWith(expanded_event_type, "contact.")
            \/ expanded_event_type \in UserEventTypes
        property_name == Get(event, "propertyName", "")
        changed ==
            IF /\ \/ Contains(expanded_event_type, "propertyChange")
                  \/ Contains(expanded_event_type, "propertychange")
               /\ property_name # ""
            THEN property_name :> Get(event, "propertyValue", NoName)
            ELSE EmptyDict
        props == Get(event, "properties", EmptyDict)
    IN  IF Has(event, "objectId") /\ is_user_event
        THEN [uid |-> event["objectId"], ud |-> props @@ changed]
        ELSE NoTarget

\* the first if/elif chain
FirstChain(event) ==
    IF /\ Lower(Get(event, "subscriptionType", "")) = "object.propertychange"
       /\ Has(event, "objectId")
    THEN PropertyChangeFormat(event)
    ELSE IF \/ StartsWith(Lower(Get(event, "eventType", "")), "contact.")
            \/ Has(event, "contactId")
    THEN ContactFormat(event)
    ELSE IF Has(event, "occurredAt") \/ Has(event, "subscriptionId")
    THEN ExpandedFormat(event)
    ELSE NoTarget

\* the second if/elif chain: Formats 2 to 5
SecondChain_EventAsHints(event, t) ==
    IF t.uid = "" /\ Has(event, "objectId")
    THEN [uid |-> event["objectId"], ud |-> Get(event, "properties", EmptyDict)]
    ELSE IF t.uid = "" /\ Has(event, "userId")
    THEN [uid |-> event["userId"], ud |-> Get(event, "properties", EmptyDict)]
    ELSE IF t.uid = "" /\ Has(event, "id")
    THEN IF \/ Get(event, "type", "") = "USER"
            \/ Has(event, "email")
            \/ Has(event, "firstName")
         THEN [uid |-> event["id"], ud |-> event]
         ELSE t
    ELSE IF t.uid = "" /\ Has(event, "objectType")
    THEN IF Upper(event["objectType"]) \in {"USER", "USER_DEFINED", "CONTACT"}
         THEN [uid |-> Get(event, "objectId", ""), ud |-> event]
         ELSE t
    ELSE t

SecondChain(event, t) ==
    IF t.uid = "" /\ Has(event, "objectId")
    THEN [uid |-> event["objectId"], ud |-> Get(event, "properties", EmptyDict)]
    ELSE IF t.uid = "" /\ Has(event, "userId")
    THEN [uid |-> event["userId"], ud |-> Get(event, "properties", EmptyDict)]
    ELSE IF t.uid = "" /\ Has(event, "id")
    THEN IF \/ Get(event, "type", "") = "USER"
            \/ Has(event, "email")
            \/ Has(event, "firstName")
         THEN [uid |-> event["id"], ud |-> event]
         ELSE t
    ELSE IF t.uid = "" /\ Has(event, "objectType")
    THEN IF Upper(event["objectType"]) \in {"USER", "USER_DEFINED", "CONTACT"}
         THEN [uid |-> Get(event, "objectId", ""),
               ud  |-> Get(event, "properties", EmptyDict)]
         ELSE t
    ELSE t

\* Format 6: nested object structure
NestedFormat(event, t) ==
    LET obj == Get(event, "object", EmptyDict)
        obj_id == OrStr(Get(obj, "id", ""), Get(obj, "objectId", ""))
        obj_type == OrStr(Get(obj, "type", ""), Get(obj, "objectType", ""))
        props == Get(obj, "properties", EmptyDict)
    IN  IF /\ t.uid = ""
           /\ Has(event, "object")
           /\ obj_id # ""
           /\ \/ Contains(Upper(obj_type), "USER")
              \/ Contains(Upper(obj_type), "CONTACT")
              \/ Has(obj, "firstName")
              \/ Has(obj, "firstname")
              \/ Has(obj, "email")
        THEN [uid |-> obj_id, ud |-> IF IsEmptyDict(props) THEN obj ELSE props]
        ELSE t

Classify(event) == NestedFormat(event, SecondChain(event, FirstChain(event)))

\* the propertyChange filter applied after classification
IgnoredProperty(t) ==
    /\ t.uid # ""
    /\ ~IsEmptyDict(t.ud)
    /\ Get(t.ud, "subscriptionType", "") = "object.propertychange"
    /\ Lower(Get(t.ud, "propertyName", "")) \notin NameProps

IsContact_TypeIdOnly(event, t) ==
    LET object_type_id ==
            IF ~IsEmptyDict(t.ud) THEN Get(t.ud, "objectTypeId", "")
            ELSE Get(event, "objectTypeId", "")
    IN  \/ object_type_id = "0-1"
        \/ Get(event, "objectTypeId", "") = "0-1"

IsContact(event, t) ==
    LET object_type_id ==
            IF ~IsEmptyDict(t.ud) THEN Get(t.ud, "objectTypeId", "")
            ELSE Get(event, "objectTypeId", "")
    IN  \/ object_type_id = "0-1"
        \/ Get(event, "objectTypeId", "") = "0-1"
        \/ Contains(Lower(Get(event, "objectType", "")), "contact")

(***************************************************************************)
(* Webhook events and payloads.                                            *)
(***************************************************************************)
\* c is << >> for an absent key and <<v>> for a key with value v
Opt(k, c) == IF Len(c) = 0 THEN EmptyDict ELSE (k :> c[1])

PropertyChangeEvents ==
    { ("subscriptionType" :> st) @@ Opt("objectId", oid) @@ Opt("propertyName", pn)
        @@ Opt("propertyValue", pv) @@ Opt("objectTypeId", ot) :
        st \in {"object.propertychange", "object.propertyChange"},
        oid \in {<<"1">>, <<"">>},
        pn \in {<< >>, <<"firstname">>, <<"Last Name">>, <<"phone">>},
        pv \in {<< >>, <<jo>>},
        ot \in {<< >>, <<"0-1">>} }

ContactEvents ==
    { Opt("contactId", cid) @@ Opt("eventType", et) @@ Opt("objectId", oid)
        @@ Opt("properties", props) @@ Opt("firstname", fn) @@ Opt("objectType", oty) :
        cid \in {<< >>, <<"1">>},
        et \in {<< >>, <<"Contact.Created">>},
        oid \in {<< >>, <<"1">>},
        props \in {<< >>, <<"firstname" :> al>>},
        fn \in {<< >>, <<jo>>},
        oty \in {<< >>, <<"Contact">>} }

ExpandedEvents ==
    { ("occurredAt" :> "t") @@ Opt("objectId", oid) @@ Opt("objectType", oty)
        @@ Opt("eventType", et) @@ Opt("propertyName", pn) @@ Opt("propertyValue", pv)
        @@ Opt("properties", props) :
        oid \in {<< >>, <<"1">>},
        oty \in {<< >>, <<"user_defined">>, <<"DEAL">>},
        et \in {<< >>, <<"object.propertyChange">>, <<"deal.created">>},
        pn \in {<< >>, <<"firstName">>},
        pv \in {<<jo>>},
        props \in {<< >>, <<"lastname" :> lee>>} }

FlatEvents ==
    { Opt("id", id) @@ Opt("userId", uid) @@ Opt("type", ty) @@ Opt("email", em)
        @@ Opt("firstName", fn) @@ Opt("subscriptionType", st) :
        id \in {<< >>, <<"1">>},
        uid \in {<< >>, <<"1">>},
        ty \in {<< >>, <<"USER">>},
        em \in {<< >>, <<"x@y">>},
        fn \in {<< >>, <<jo>>},
        st \in {<< >>, <<"object.propertychange">>} }

NestedEvents ==
    { ("subscriptionId" :> "s") @@ ("object" :> obj) :
        obj \in { ("id" :> "1") @@ ("type" :> "USER"),
                  ("objectId" :> "1") @@ ("firstname" :> jo),
                  ("id" :> "1") @@ ("objectType" :> "contact")
                      @@ ("properties" :> ("firstname" :> jo)),
                  ("id" :> "1"),
                  ("type" :> "USER") } }

\* an event whose properties carry the object type id
TypedHintEvents ==
    { ("objectId" :> "1")
        @@ ("properties" :> (("objectTypeId" :> "0-1") @@ ("firstname" :> jo))) }

Events ==
    PropertyChangeEvents \cup ContactEvents \cup ExpandedEvents
        \cup FlatEvents \cup NestedEvents \cup TypedHintEvents

\* elements of an array payload: an event that reaches the CRM, one that is
\* not recognised, and a value that is not a dict
BatchEvents ==
    { ("objectId" :> "1"),
      ("foo" :> "bar") }

NonMapping == [kind |-> "other"]
Mapping(event) == [kind |-> "dict", ev |-> event]
BatchElements == { Mapping(e) : e \in BatchEvents } \cup {NonMapping}

Payloads ==
    { Mapping(e) : e \in Events }
        \cup { [kind |-> "list", items |-> items] :
                 items \in UNION { [1..n -> BatchElements] : n \in 0..MaxBatch } }
        \cup { NonMapping }

(***************************************************************************)
(* The CRM: a Users API (settings/v3/users) and a Contacts API             *)
(* (crm/v3/objects/contacts), each holding at most one record per id.      *)
(***************************************************************************)
RecordIds == {"1"}

Missing == [exists |-> FALSE, first |-> NoName, last |-> NoName]
StoredNames == { <<NoName, NoName>>, <<jo, lee>>, <<Jo, NoName>>, <<Jo, Lee>> }
Stored == { [exists |-> TRUE, first |-> n[1], last |-> n[2]] : n \in StoredNames }
Records == Stored \cup {Missing}

VARIABLES
    tokenSet,    \* HUBSPOT_ACCESS_TOKEN is set
    users,       \* Users API: id -> record
    contacts,    \* Contacts API: id -> record
    payload,     \* the payload being delivered
    responses,   \* what handle_hubspot_user_webhook returned, per delivery
    pc,          \* position of the handler
    idx,         \* position in an array payload
    results,     \* the results list of the array branch
    loc,         \* local variables of handle_single_hubspot_event
    elems,       \* the events handled in this delivery, with their outcome
    calls        \* HTTP requests sent in this delivery

VARIABLES
    notionToken, \* NOTION_TOKEN is set
    page,        \* the workspace page (its properties)
    hub,         \* Users API as sync_user_to_hubspot uses it: id -> user
    syncPc,      \* position of each sync_user_to_hubspot call
    syncLoc,     \* local variables of each sync_user_to_hubspot call
    syncRuns,    \* the calls of sync_user_to_hubspot that returned
    syncCalls,   \* HTTP requests sent by sync_user_to_hubspot
    norm         \* a name and what the copies of capitalize_name make of it

VARIABLES
    inbox,       \* webhook events the CRM has emitted and not yet delivered
    notion       \* the event given to handle_notion_webhook and its outcome

handlerVars == <<users, contacts, payload, responses, pc, idx, results, loc,
                 elems, calls>>

syncVars == <<notionToken, page, hub, syncPc, syncLoc, syncRuns, syncCalls>>

normVars == <<norm>>

edgeVars == <<inbox, notion>>

vars == <<tokenSet, handlerVars, syncVars, normVars, edgeVars>>

crm == <<tokenSet, users, contacts>>

\* no sync_user_to_hubspot call exists
SyncIdle ==
    /\ notionToken = TRUE
    /\ page = [email |-> "", first |-> NoName, last |-> NoName, created |-> FALSE,
               user_id |-> "", last_updated |-> "", created_date |-> ""]
    /\ hub = << >>
    /\ syncPc = << >>
    /\ syncLoc = << >>
    /\ syncRuns = << >>
    /\ syncCalls = << >>

\* no name is being normalized
NormIdle ==
    norm = [name |-> NoName, applied |-> {}, out |-> NoName, out_sync |-> NoName,
            again |-> NoName]

\* handle_notion_webhook has not been called
NoNotion ==
    [event |-> NonMapping, users_db |-> "", stage |-> "none", status |-> "none",
     message |-> "none"]

\* no event waits for delivery and handle_notion_webhook is not in use
EdgeIdle == inbox = << >> /\ notion = NoNotion

(***************************************************************************)
(* Local state of one handle_single_hubspot_event call, results and HTTP.  *)
(***************************************************************************)
LocInit(event, i) ==
    [event |-> event, idx |-> i, user_id |-> "", user_data |-> EmptyDict,
     is_contact |-> FALSE, user |-> EmptyDict, fetch_done |-> FALSE,
     current |-> <<NoName, NoName>>, normalized |-> <<NoName, NoName>>,
     updates |-> 0, status |-> "running"]

NoLoc == LocInit(EmptyDict, 0)

SingleResult(st) ==
    [kind |-> "single", status |-> st, processed |-> 1,
     success_count |-> 0, ignored_count |-> 0, error_count |-> 0]

\* an exception leaves handle_hubspot_user_webhook
Escaped ==
    [kind |-> "exception", status |-> "none", processed |-> 0,
     success_count |-> 0, ignored_count |-> 0, error_count |-> 0]

CountStatus(rs, st) == Cardinality({ i \in 1..Len(rs) : rs[i] = st })

\* OverallStatus with the error test put first
OverallStatus_ErrorFirst(success_count, error_count) ==
    IF error_count > 0 THEN "error"
    ELSE IF success_count > 0 THEN "success" ELSE "ignored"

OverallStatus(success_count, error_count) ==
    IF success_count > 0 THEN "success"
    ELSE IF error_count = 0 THEN "ignored" ELSE "error"

\* the summary returned for an array payload
Summary(event_list, rs) ==
    [kind |-> "aggregate",
     status |-> OverallStatus(CountStatus(rs, "success"), CountStatus(rs, "error")),
     processed |-> Len(event_list),
     success_count |-> CountStatus(rs, "success"),
     ignored_count |-> CountStatus(rs, "ignored"),
     error_count |-> CountStatus(rs, "error")]

\* InvalidPayloadStatus taking a bad payload for an ignorable one
InvalidPayloadStatus_Ignored == "ignored"

InvalidPayloadStatus == "error"

\* what the server answers when the request is served: the record decides
\* between 200 and 404, a failing server answers 500
Outcomes == {"ok", "server_error", "raise"}

StatusOf(api, id, outcome) ==
    IF outcome = "server_error" THEN 500
    ELSE IF id \in RecordIds /\ api[id].exists THEN 200 ELSE 404

Call(l, fn, method, api, body, status) ==
    [elem |-> l.idx, fn |-> fn, method |-> method, api |-> api, id |-> l.user_id,
     body |-> body, status |-> status]

\* response.json() of the Users API
UserJson(id) ==
    ("id" :> id) @@ ("firstName" :> users[id].first) @@ ("lastName" :> users[id].last)

\* the contact converted to the user-like format
ContactAsUser(id) ==
    LET props == ("firstname" :> contacts[id].first) @@ ("lastname" :> contacts[id].last)
    IN  ("id" :> id)
        @@ ("firstName" :> Get(props, "firstname", NoName))
        @@ ("lastName" :> Get(props, "lastname", NoName))
        @@ ("firstname" :> Get(props, "firstname", NoName))
        @@ ("lastname" :> Get(props, "lastname", NoName))
        @@ ("email" :> Get(props, "email", ""))

\* FetchFallsBack falling back on every failure
FetchFallsBack_AnyFailure(status) == status # 200

\* get_hubspot_user falls back to the Contacts API on this Users API status
FetchFallsBack(status) == status = 404

\* request bodies of update_hubspot_user_name
UserBody_AllFields(first_name, last_name) ==
    ("firstName" :> first_name) @@ ("lastName" :> last_name)

UserBody(first_name, last_name) ==
    (IF first_name # NoName THEN "firstName" :> first_name ELSE EmptyDict)
    @@ (IF last_name # NoName THEN "lastName" :> last_name ELSE EmptyDict)

ContactBody(first_name, last_name) ==
    (IF first_name # NoName THEN "firstname" :> first_name ELSE EmptyDict)
    @@ (IF last_name # NoName THEN "lastname" :> last_name ELSE EmptyDict)

\* the CRM applies an accepted write
PatchedUser(rec, body) ==
    [rec EXCEPT !.first = Get(body, "firstName", @), !.last = Get(body, "lastName", @)]

PatchedContact(rec, body) ==
    [rec EXCEPT !.first = Get(body, "firstname", @), !.last = Get(body, "lastname", @)]

(***************************************************************************)
(* handle_single_hubspot_event, merge part: the current names.             *)
(***************************************************************************)
HintFirst(d) ==
    OrName(Get(d, "firstName", NoName),
           OrName(Get(d, "firstname", NoName), Get(d, "First Name", NoName)))

HintLast(d) ==
    OrName(Get(d, "lastName", NoName),
           OrName(Get(d, "lastname", NoName), Get(d, "Last Name", NoName)))

\* names of the API response
FetchedNames(user) ==
    << OrName(Get(user, "firstName", NoName), Get(user, "firstname", NoName)),
       OrName(Get(user, "lastName", NoName), Get(user, "lastname", NoName)) >>

\* then user_data: the standard keys, then the propertyName/propertyValue pair
WithUserData(names, user_data) ==
    LET filled == << IF names[1] = NoName THEN HintFirst(user_data) ELSE names[1],
                     IF names[2] = NoName THEN HintLast(user_data) ELSE names[2] >>
        property_name == Lower(OrStr(Get(user_data, "propertyName", ""), ""))
        property_value == Get(user_data, "propertyValue", NoName)
    IN  IF IsEmptyDict(user_data) THEN names
        ELSE IF property_name \in {"firstname", "first name"} /\ property_value # NoName
        THEN <<property_value, filled[2]>>
        ELSE IF property_name \in {"lastname", "last name"} /\ property_value # NoName
        THEN <<filled[1], property_value>>
        ELSE filled

\* then the properties of the event itself
WithEventProps(names, event) ==
    LET event_props == Get(event, "properties", EmptyDict)
    IN  IF names[1] = NoName \/ names[2] = NoName
        THEN << IF names[1] = NoName
                THEN OrName(Get(event_props, "firstname", NoName),
                            OrName(Get(event_props, "firstName", NoName),
                                   Get(event_props, "First Name", NoName)))
                ELSE names[1],
                IF names[2] = NoName
                THEN OrName(Get(event_props, "lastname", NoName),
                            OrName(Get(event_props, "lastName", NoName),
                                   Get(event_props, "Last Name", NoName)))
                ELSE names[2] >>
        ELSE names

CurrentNames(event, user, user_data) ==
    WithEventProps(WithUserData(FetchedNames(user), user_data), event)

\* NeedsUpdate testing the last name for truth instead of comparing it
NeedsUpdate_TruthyLast(current, normalized) ==
    current[1] # normalized[1] \/ current[2] # NoName

NeedsUpdate(current, normalized) ==
    current[1] # normalized[1] \/ current[2] # normalized[2]

\* NoUserId with the test dropped
NoUserId_Never(user_id) == FALSE

NoUserId(user_id) == user_id = ""

(***************************************************************************)
(* Initial state: a configuration, a CRM and one payload to deliver.       *)
(***************************************************************************)
Init ==
    /\ tokenSet \in BOOLEAN
    /\ users \in [RecordIds -> Records]
    /\ contacts \in [RecordIds -> Records]
    /\ payload \in Payloads
    /\ responses = << >>
    /\ pc = "idle"
    /\ idx = 0
    /\ results = << >>
    /\ loc = NoLoc
    /\ elems = << >>
    /\ calls = << >>
    /\ SyncIdle
    /\ NormIdle
    /\ EdgeIdle

(***************************************************************************)
(* How handle_single_hubspot_event ends.                                   *)
(***************************************************************************)
\* it returns a result with status st: to the array loop or to the caller
Finish(l, st) ==
    /\ elems' = Append(elems, [l EXCEPT !.status = st])
    /\ loc' = NoLoc
    /\ IF payload.kind = "list"
       THEN /\ results' = Append(results, st)
            /\ idx' = idx + 1
            /\ pc' = "loop"
            /\ UNCHANGED responses
       ELSE /\ responses' = Append(responses, SingleResult(st))
            /\ pc' = "done"
            /\ UNCHANGED <<results, idx>>

\* an HTTP call raises: nothing between the call and the caller of
\* handle_hubspot_user_webhook catches the exception
Raise(l) ==
    /\ elems' = Append(elems, [l EXCEPT !.status = "raised"])
    /\ loc' = NoLoc
    /\ responses' = Append(responses, Escaped)
    /\ pc' = "done"
    /\ UNCHANGED <<results, idx>>

\* the end of update_hubspot_user_name and of the handler
UpdateEnd(l, status) == Finish(l, IF status = 200 THEN "success" ELSE "error")

(***************************************************************************)
(* handle_hubspot_user_webhook.                                            *)
(***************************************************************************)
HandleWebhook ==
    /\ pc = "idle"
    /\ UNCHANGED <<syncVars, normVars, edgeVars>>
    /\ UNCHANGED <<crm, payload, elems, calls>>
    /\ CASE payload.kind = "list" ->
              /\ pc' = "loop"
              /\ idx' = 1
              /\ results' = << >>
              /\ UNCHANGED <<responses, loc>>
         [] payload.kind = "dict" ->
              /\ pc' = "single"
              /\ idx' = 1
              /\ loc' = LocInit(payload.ev, 1)
              /\ UNCHANGED <<responses, results>>
         [] OTHER ->
              /\ pc' = "done"
              /\ responses' = Append(responses, SingleResult(InvalidPayloadStatus))
              /\ UNCHANGED <<idx, results, loc>>

\* one iteration of the loop over the array
LoopStep ==
    /\ pc = "loop"
    /\ UNCHANGED <<syncVars, normVars, edgeVars>>
    /\ idx <= Len(payload.items)
    /\ UNCHANGED <<crm, payload, responses, results, elems, calls>>
    /\ IF payload.items[idx].kind = "dict"
       THEN /\ pc' = "single"
            /\ loc' = LocInit(payload.items[idx].ev, idx)
            /\ UNCHANGED idx
       ELSE /\ idx' = idx + 1
            /\ UNCHANGED <<pc, loc>>

\* the summary after the loop
Aggregate ==
    /\ pc = "loop"
    /\ UNCHANGED <<syncVars, normVars, edgeVars>>
    /\ idx > Len(payload.items)
    /\ responses' = Append(responses, Summary(payload.items, results))
    /\ pc' = "done"
    /\ UNCHANGED <<crm, payload, idx, results, loc, elems, calls>>

(***************************************************************************)
(* handle_single_hubspot_event up to the call of get_hubspot_user.         *)
(***************************************************************************)
ClassifyEvent ==
    /\ pc = "single"
    /\ UNCHANGED <<syncVars, normVars, edgeVars>>
    /\ UNCHANGED <<crm, payload, calls>>
    /\ LET t == Classify(loc.event)
           l == [loc EXCEPT !.user_id = t.uid, !.user_data = t.ud,
                            !.is_contact = IsContact(loc.event, t)]
       IN  IF IgnoredProperty(t) THEN Finish(l, "ignored")
           ELSE IF NoUserId(t.uid) THEN Finish(l, "ignored")
           ELSE /\ loc' = l
                /\ pc' = "get_user"
                /\ UNCHANGED <<responses, idx, results, elems>>

(***************************************************************************)
(* get_hubspot_user.                                                       *)
(***************************************************************************)
GetUserNoToken ==
    /\ pc = "get_user"
    /\ UNCHANGED <<syncVars, normVars, edgeVars>>
    /\ ~tokenSet
    /\ pc' = "have_user"
    /\ loc' = [loc EXCEPT !.user = EmptyDict, !.fetch_done = TRUE]
    /\ UNCHANGED <<crm, payload, responses, idx, results, elems, calls>>

GetContactDirect ==
    /\ pc = "get_user"
    /\ UNCHANGED <<syncVars, normVars, edgeVars>>
    /\ tokenSet
    /\ loc.is_contact
    /\ UNCHANGED <<crm, payload>>
    /\ \E outcome \in Outcomes :
         LET status == StatusOf(contacts, loc.user_id, outcome)
             sent == Call(loc, "get_hubspot_user", "GET", "contacts", EmptyDict,
                          IF outcome = "raise" THEN 0 ELSE status)
         IN  /\ calls' = Append(calls, sent)
             /\ IF outcome = "raise" THEN Raise(loc)
                ELSE /\ loc' = [loc EXCEPT !.user =
                                  IF status = 200 THEN ContactAsUser(loc.user_id)
                                  ELSE EmptyDict,
                                  !.fetch_done = TRUE]
                     /\ pc' = "have_user"
                     /\ UNCHANGED <<responses, idx, results, elems>>

GetUsersApi ==
    /\ pc = "get_user"
    /\ UNCHANGED <<syncVars, normVars, edgeVars>>
    /\ tokenSet
    /\ ~loc.is_contact
    /\ UNCHANGED <<crm, payload>>
    /\ \E outcome \in Outcomes :
         LET status == StatusOf(users, loc.user_id, outcome)
             sent == Call(loc, "get_hubspot_user", "GET", "users", EmptyDict,
                          IF outcome = "raise" THEN 0 ELSE status)
         IN  /\ calls' = Append(calls, sent)
             /\ IF outcome = "raise" THEN Raise(loc)
                ELSE /\ loc' = [loc EXCEPT !.user =
                                  IF status = 200 THEN UserJson(loc.user_id)
                                  ELSE EmptyDict,
                                  !.fetch_done = ~(status # 200 /\ FetchFallsBack(status))]
                     /\ pc' = IF status = 200 THEN "have_user"
                              ELSE IF FetchFallsBack(status) THEN "get_contact"
                              ELSE "have_user"
                     /\ UNCHANGED <<responses, idx, results, elems>>

GetContactFallback ==
    /\ pc = "get_contact"
    /\ UNCHANGED <<syncVars, normVars, edgeVars>>
    /\ UNCHANGED <<crm, payload>>
    /\ \E outcome \in Outcomes :
         LET status == StatusOf(contacts, loc.user_id, outcome)
             sent == Call(loc, "get_hubspot_user", "GET", "contacts", EmptyDict,
                          IF outcome = "raise" THEN 0 ELSE status)
         IN  /\ calls' = Append(calls, sent)
             /\ IF outcome = "raise" THEN Raise(loc)
                ELSE /\ loc' = [loc EXCEPT !.user =
                                  IF status = 200 THEN ContactAsUser(loc.user_id)
                                  ELSE EmptyDict,
                                  !.fetch_done = TRUE]
                     /\ pc' = "have_user"
                     /\ UNCHANGED <<responses, idx, results, elems>>

(***************************************************************************)
(* handle_single_hubspot_event from the fetched user to the decision.      *)
(***************************************************************************)
ResolveNames ==
    /\ pc = "have_user"
    /\ UNCHANGED <<syncVars, normVars, edgeVars>>
    /\ UNCHANGED <<crm, payload, calls>>
    /\ LET current == CurrentNames(loc.event, loc.user, loc.user_data)
           normalized == normalize_user_name(current[1], current[2])
           l == [loc EXCEPT !.current = current, !.normalized = normalized]
       IN  IF IsEmptyDict(loc.user) THEN Finish(loc, "error")
           ELSE IF current[1] = NoName /\ current[2] = NoName THEN Finish(l, "ignored")
           ELSE IF ~NeedsUpdate(current, normalized) THEN Finish(l, "ignored")
           ELSE /\ loc' = [l EXCEPT !.updates = @ + 1]
                /\ pc' = "update"
                /\ UNCHANGED <<responses, idx, results, elems>>

(***************************************************************************)
(* update_hubspot_user_name.                                               *)
(***************************************************************************)
WriteOutcomes == Outcomes \cup {"method_not_allowed"}

WriteStatusOf(api, id, outcome) ==
    IF outcome = "method_not_allowed" THEN 405 ELSE StatusOf(api, id, outcome)

\* the Users API PATCH is retried as PUT on this status
RetryAsPut_AnyFailure(status) == status # 200

RetryAsPut(status) == status = 405

\* the write goes to the Contacts API after this Users API status
WriteFallsBack_Never(status) == FALSE

WriteFallsBack(status) == status = 404

UpdateContactDirect ==
    /\ pc = "update"
    /\ UNCHANGED <<syncVars, normVars, edgeVars>>
    /\ loc.is_contact
    /\ UNCHANGED <<tokenSet, users, payload>>
    /\ LET body == ContactBody(loc.normalized[1], loc.normalized[2])
       IN  IF ~tokenSet THEN Finish(loc, "error") /\ UNCHANGED <<contacts, calls>>
           ELSE IF IsEmptyDict(body)
           THEN Finish(loc, "success") /\ UNCHANGED <<contacts, calls>>
           ELSE \E outcome \in WriteOutcomes :
                  LET status == WriteStatusOf(contacts, loc.user_id, outcome)
                      sent == Call(loc, "update_hubspot_user_name", "PATCH", "contacts",
                                   body, IF outcome = "raise" THEN 0 ELSE status)
                  IN  /\ calls' = Append(calls, sent)
                      /\ IF outcome = "raise" THEN Raise(loc) /\ UNCHANGED contacts
                         ELSE /\ contacts' =
                                   IF status = 200
                                   THEN [contacts EXCEPT ![loc.user_id] =
                                            PatchedContact(@, body)]
                                   ELSE contacts
                              /\ UpdateEnd(loc, status)

UpdateUsersPatch ==
    /\ pc = "update"
    /\ UNCHANGED <<syncVars, normVars, edgeVars>>
    /\ ~loc.is_contact
    /\ UNCHANGED <<tokenSet, contacts, payload>>
    /\ LET body == UserBody(loc.normalized[1], loc.normalized[2])
       IN  IF ~tokenSet THEN Finish(loc, "error") /\ UNCHANGED <<users, calls>>
           ELSE IF IsEmptyDict(body)
           THEN Finish(loc, "success") /\ UNCHANGED <<users, calls>>
           ELSE \E outcome \in WriteOutcomes :
                  LET status == WriteStatusOf(users, loc.user_id, outcome)
                      sent == Call(loc, "update_hubspot_user_name", "PATCH", "users",
                                   body, IF outcome = "raise" THEN 0 ELSE status)
                  IN  /\ calls' = Append(calls, sent)
                      /\ IF outcome = "raise" THEN Raise(loc) /\ UNCHANGED users
                         ELSE /\ users' =
                                   IF status = 200
                                   THEN [users EXCEPT ![loc.user_id] = PatchedUser(@, body)]
                                   ELSE users
                              /\ IF RetryAsPut(status)
                                 THEN /\ pc' = "put"
                                      /\ UNCHANGED <<responses, idx, results, loc, elems>>
                                 ELSE IF WriteFallsBack(status)
                                 THEN /\ pc' = "patch_contact"
                                      /\ UNCHANGED <<responses, idx, results, loc, elems>>
                                 ELSE UpdateEnd(loc, status)

UpdateUsersPut ==
    /\ pc = "put"
    /\ UNCHANGED <<syncVars, normVars, edgeVars>>
    /\ UNCHANGED <<tokenSet, contacts, payload>>
    /\ \E outcome \in WriteOutcomes :
         LET body == UserBody(loc.normalized[1], loc.normalized[2])
             status == WriteStatusOf(users, loc.user_id, outcome)
             sent == Call(loc, "update_hubspot_user_name", "PUT", "users",
                          body, IF outcome = "raise" THEN 0 ELSE status)
         IN  /\ calls' = Append(calls, sent)
             /\ IF outcome = "raise" THEN Raise(loc) /\ UNCHANGED users
                ELSE /\ users' =
                          IF status = 200
                          THEN [users EXCEPT ![loc.user_id] = PatchedUser(@, body)]
                          ELSE users
                     /\ IF WriteFallsBack(status)
                        THEN /\ pc' = "patch_contact"
                             /\ UNCHANGED <<responses, idx, results, loc, elems>>
                        ELSE UpdateEnd(loc, status)

UpdateContactFallback ==
    /\ pc = "patch_contact"
    /\ UNCHANGED <<syncVars, normVars, edgeVars>>
    /\ UNCHANGED <<tokenSet, users, payload>>
    /\ \E outcome \in WriteOutcomes :
         LET body == ContactBody(loc.normalized[1], loc.normalized[2])
             status == WriteStatusOf(contacts, loc.user_id, outcome)
             sent == Call(loc, "update_hubspot_user_name", "PATCH", "contacts",
                          body, IF outcome = "raise" THEN 0 ELSE status)
         IN  /\ calls' = Append(calls, sent)
             /\ IF outcome = "raise" THEN Raise(loc) /\ UNCHANGED contacts
                ELSE /\ contacts' =
                          IF status = 200
                          THEN [contacts EXCEPT ![loc.user_id] = PatchedContact(@, body)]
                          ELSE contacts
                     /\ UpdateEnd(loc, status)

(***************************************************************************)
(* The CRM delivers the same payload again (webhook redelivery); nothing   *)
(* else changes the records in between.                                    *)
(***************************************************************************)
Redeliver ==
    /\ pc = "done"
    /\ UNCHANGED <<syncVars, normVars, edgeVars>>
    /\ Len(responses) < MaxRequests
    /\ pc' = "idle"
    /\ idx' = 0
    /\ results' = << >>
    /\ loc' = NoLoc
    /\ elems' = << >>
    /\ calls' = << >>
    /\ UNCHANGED <<crm, payload, responses>>

\* the POST branch of the hubspot_webhook route: the HTTP status it answers
\* for a request body and the outcome of handle_hubspot_user_webhook
EmptyBody(body) ==
    \/ body.kind = "list" /\ Len(body.items) = 0
    \/ body.kind = "dict" /\ IsEmptyDict(body.ev)

hubspot_webhook(body, result) ==
    IF EmptyBody(body) THEN 400
    ELSE IF result.kind = "exception" THEN 500
    ELSE IF result.status = "success" THEN 200
    ELSE IF result.status = "ignored" THEN 200
    ELSE 500

Next ==
    \/ HandleWebhook
    \/ LoopStep
    \/ Aggregate
    \/ ClassifyEvent
    \/ GetUserNoToken
    \/ GetContactDirect
    \/ GetUsersApi
    \/ GetContactFallback
    \/ ResolveNames
    \/ UpdateContactDirect
    \/ UpdateUsersPatch
    \/ UpdateUsersPut
    \/ UpdateContactFallback
    \/ Redeliver

Spec == Init /\ [][Next]_vars

(***************************************************************************)
(* The CRM and the handler in a loop.  Someone edits the first name, the   *)
(* last name or both of record 1; the CRM emits one property-change event  *)
(* per edited property, carrying the value the record has.  The events are *)
(* delivered one at a time, and every write the handler gets accepted      *)
(* makes the CRM emit one more property-change event per name written,     *)
(* carrying the written value.  Nobody else changes the record.            *)
(***************************************************************************)
\* deliveries in a run
MaxDeliveries == 4

\* the property-change event for a name of record 1 (Format 0 of the handler)
PropertyChange(api, property_name, property_value) ==
    ("subscriptionType" :> "object.propertyChange")
        @@ ("objectId" :> "1")
        @@ ("propertyName" :> property_name)
        @@ ("propertyValue" :> property_value)
        @@ (IF api = "contacts" THEN "objectTypeId" :> "0-1" ELSE EmptyDict)

\* the properties of one edit, in the order their events are emitted
Edits ==
    { <<"firstname">>, <<"lastname">>,
      <<"firstname", "lastname">>, <<"lastname", "firstname">> }

EditEvents(api, rec, edit) ==
    [i \in 1..Len(edit) |->
        PropertyChange(api, edit[i],
                       IF edit[i] = "firstname" THEN rec.first ELSE rec.last)]

\* the events the CRM emits for one request of the handler
EchoOf(c) ==
    IF c.fn = "update_hubspot_user_name" /\ c.status = 200
    THEN (IF Has(c.body, "firstName") \/ Has(c.body, "firstname")
          THEN <<PropertyChange(c.api, "firstname",
                                OrName(Get(c.body, "firstName", NoName),
                                       Get(c.body, "firstname", NoName)))>>
          ELSE << >>)
         \o (IF Has(c.body, "lastName") \/ Has(c.body, "lastname")
             THEN <<PropertyChange(c.api, "lastname",
                                   OrName(Get(c.body, "lastName", NoName),
                                          Get(c.body, "lastname", NoName)))>>
             ELSE << >>)
    ELSE << >>

RECURSIVE Echoes(_)
Echoes(cs) == IF cs = << >> THEN << >> ELSE EchoOf(Head(cs)) \o Echoes(Tail(cs))

EchoInit ==
    /\ tokenSet \in BOOLEAN
    /\ users \in [RecordIds -> Records]
    /\ contacts \in [RecordIds -> Records]
    /\ \E api \in {"users", "contacts"}, edit \in Edits :
         \* an event without objectTypeId is for the user, or for the contact
         \* when no user has the id
         LET rec == IF api = "users" /\ users["1"].exists THEN users["1"]
                    ELSE contacts["1"]
         IN  /\ rec.exists
             /\ inbox = EditEvents(api, rec, edit)
    /\ payload = NonMapping
    /\ responses = << >>
    /\ pc = "done"
    /\ idx = 0
    /\ results = << >>
    /\ loc = NoLoc
    /\ elems = << >>
    /\ calls = << >>
    /\ notion = NoNotion
    /\ SyncIdle
    /\ NormIdle

\* the route hands the next event to handle_hubspot_user_webhook; the events
\* emitted for the writes of the last delivery have joined the queue
DeliverEvent ==
    /\ pc = "done"
    /\ Len(responses) < MaxDeliveries
    /\ LET pending == inbox \o Echoes(calls)
       IN  /\ pending # << >>
           /\ payload' = Mapping(Head(pending))
           /\ inbox' = Tail(pending)
    /\ pc' = "idle"
    /\ idx' = 0
    /\ results' = << >>
    /\ loc' = NoLoc
    /\ elems' = << >>
    /\ calls' = << >>
    /\ UNCHANGED <<crm, responses, syncVars, normVars, notion>>

EchoNext ==
    \/ DeliverEvent
    \/ HandleWebhook
    \/ ClassifyEvent
    \/ GetUserNoToken
    \/ GetContactDirect
    \/ GetUsersApi
    \/ GetContactFallback
    \/ ResolveNames
    \/ UpdateContactDirect
    \/ UpdateUsersPatch
    \/ UpdateUsersPut
    \/ UpdateContactFallback

EchoSpec == EchoInit /\ [][EchoNext]_vars

(***************************************************************************)
(* notion_hubspot_sync.py.                                                 *)
(*                                                                         *)
(* One workspace page, the Users API of the CRM, and sync_user_to_hubspot  *)
(* called for that page up to MaxSyncs times, one call after the other.    *)
(***************************************************************************)
\* calls of sync_user_to_hubspot for the page
MaxSyncs == 2

\* a name of one space
blank == <<" ">>

\* the copy of capitalize_name in notion_hubspot_sync.py
capitalize_name_sync_NoTrim(name) ==
    IF name = << >> THEN name ELSE UpperChar(name[1]) \o Tail(name)

capitalize_name_sync(name) ==
    IF name = << >> \/ Strip(name) = << >>
    THEN name
    ELSE LET n == Strip(name)
         IN  IF Len(n) > 1 THEN UpperChar(n[1]) \o Tail(n) ELSE UpperChar(n[1])

\* the properties of a page that extract_user_properties reads and
\* update_notion_sync_status writes
Pages ==
    [email : {"", "e1"}, first : {NoName, jo, blank}, last : {NoName, lee},
     created : BOOLEAN, user_id : {"", "u1", "u9"},
     last_updated : {""}, created_date : {""}]

HubUser(email, first, last) == [email |-> email, first |-> first, last |-> last]

\* the Users API before the first sync: empty, or one user
Hubs ==
    { << >>,
      "u1" :> HubUser("e1", Jo, Lee),
      "u1" :> HubUser("e1", al, NoName),
      "u1" :> HubUser("e2", Jo, Lee) }

\* the id the Users API gives to a created user
NewUserId(h) == IF "u1" \notin DOMAIN h THEN "u1" ELSE "u2"

UsersWithEmail(h, email) == { id \in DOMAIN h : h[id].email = email }

extract_user_properties(notion_user) ==
    [email |-> notion_user.email,
     first_name |-> capitalize_name_sync(notion_user.first),
     last_name |-> capitalize_name_sync(notion_user.last),
     hubspot_created |-> notion_user.created,
     hubspot_user_id |-> notion_user.user_id]

NoUserData ==
    [email |-> "", first_name |-> NoName, last_name |-> NoName,
     hubspot_created |-> FALSE, hubspot_user_id |-> ""]

\* the validation of sync_user_to_hubspot
HasRequiredFields_EmailOnly(user_data) == user_data.email # ""

HasRequiredFields(user_data) ==
    /\ user_data.email # ""
    /\ ~(user_data.first_name = NoName /\ user_data.last_name = NoName)

\* the branch of sync_user_to_hubspot: update instead of create
AlreadySynced_Inverted(user_data) ==
    ~(user_data.hubspot_created /\ user_data.hubspot_user_id # "")

AlreadySynced_Never(user_data) == FALSE

AlreadySynced(user_data) ==
    user_data.hubspot_created /\ user_data.hubspot_user_id # ""

\* the JSON body of the POST of create_user_in_hubspot
CreatePayload(user_data) ==
    ("email" :> user_data.email)
        @@ (IF user_data.first_name # NoName
            THEN "firstName" :> user_data.first_name ELSE EmptyDict)
        @@ (IF user_data.last_name # NoName
            THEN "lastName" :> user_data.last_name ELSE EmptyDict)

\* the JSON body of the PATCH of update_user_in_hubspot
UpdatePayload(user_data) ==
    (IF user_data.first_name # NoName
     THEN "firstName" :> user_data.first_name ELSE EmptyDict)
        @@ (IF user_data.last_name # NoName
            THEN "lastName" :> user_data.last_name ELSE EmptyDict)
        @@ (IF user_data.email # "" THEN "email" :> user_data.email ELSE EmptyDict)

\* the properties update_notion_sync_status sends
StatusPayload(hubspot_user_id, created) ==
    [created |-> TRUE, user_id |-> hubspot_user_id, last_updated |-> "now",
     created_date |-> IF created THEN "now" ELSE ""]

\* the page after a PATCH of these properties
PatchedPage(p, body) ==
    [p EXCEPT !.created = body.created, !.user_id = body.user_id,
              !.last_updated = body.last_updated,
              !.created_date = IF body.created_date # "" THEN body.created_date ELSE @]

\* the Users API record after POST / PATCH with this body
CreatedHubUser(body) ==
    HubUser(body["email"], Get(body, "firstName", NoName), Get(body, "lastName", NoName))

PatchedHubUser(rec, body) ==
    HubUser(Get(body, "email", rec.email), Get(body, "firstName", rec.first),
            Get(body, "lastName", rec.last))

\* statuses: the Notion API refuses a request without a token
NotionStatusOf(outcome) ==
    IF outcome = "server_error" THEN 500 ELSE IF notionToken THEN 200 ELSE 401

\* the Users API refuses to create a second user with the same email
CreateStatusOf(h, email, outcome) ==
    IF outcome = "server_error" THEN 500
    ELSE IF UsersWithEmail(h, email) # {} THEN 409 ELSE 201

HubStatusOf(h, id, outcome) ==
    IF outcome = "server_error" THEN 500 ELSE IF id \in DOMAIN h THEN 200 ELSE 404

\* the status create_user_in_hubspot takes for a created user
Created(status) == status = 200 \/ status = 201

\* the status create_user_in_hubspot takes for an existing user
AlreadyExists_Never(status) == FALSE

AlreadyExists(status) == status = 409

SyncLocInit(w, run) ==
    [worker |-> w, run |-> run, user_data |-> NoUserData, hubspot_user_id |-> "",
     created |-> FALSE, path |-> "none", result |-> "none"]

\* a request of run l: what was sent, the status that came back (0 when the
\* call raised) and the page as it was when the request was sent
SyncCall(l, fn, method, api, id, body, status) ==
    [worker |-> l.worker, run |-> l.run, fn |-> fn, method |-> method, api |-> api,
     id |-> id, body |-> body, status |-> status, page |-> page]

SyncInit ==
    /\ tokenSet \in BOOLEAN
    /\ notionToken \in BOOLEAN
    /\ page \in Pages
    /\ hub \in Hubs
    /\ syncPc = [w \in {1} |-> "idle"]
    /\ syncLoc = [w \in {1} |-> SyncLocInit(w, 0)]
    /\ syncRuns = << >>
    /\ syncCalls = << >>
    /\ users = [id \in RecordIds |-> Missing]
    /\ contacts = [id \in RecordIds |-> Missing]
    /\ payload = NonMapping
    /\ responses = << >>
    /\ pc = "idle"
    /\ idx = 0
    /\ results = << >>
    /\ loc = NoLoc
    /\ elems = << >>
    /\ calls = << >>
    /\ NormIdle
    /\ EdgeIdle

\* what a step of sync_user_to_hubspot leaves alone
syncFrame == <<tokenSet, notionToken, handlerVars, normVars, edgeVars>>

\* sync_user_to_hubspot returns result ("True" / "False"), or an exception
\* leaves it ("raised")
Return(w, l, result) ==
    /\ syncRuns' = Append(syncRuns, [l EXCEPT !.result = result])
    /\ syncLoc' = [syncLoc EXCEPT ![w] = [l EXCEPT !.result = result]]
    /\ syncPc' = [syncPc EXCEPT ![w] = "done"]

Goto(w, l, label) ==
    /\ syncLoc' = [syncLoc EXCEPT ![w] = l]
    /\ syncPc' = [syncPc EXCEPT ![w] = label]
    /\ UNCHANGED syncRuns

\* sync_user_to_hubspot is called for the page
SyncUserToHubspot(w) ==
    /\ syncPc[w] \in {"idle", "done"}
    /\ syncLoc[w].run < MaxSyncs
    /\ Goto(w, SyncLocInit(w, syncLoc[w].run + 1), "get_page")
    /\ UNCHANGED <<syncFrame, page, hub, syncCalls>>

\* get_notion_user, extract_user_properties, the validation and the branch
GetNotionUser(w) ==
    /\ syncPc[w] = "get_page"
    /\ UNCHANGED <<syncFrame, page, hub>>
    /\ \E outcome \in Outcomes :
         LET l == syncLoc[w]
             status == NotionStatusOf(outcome)
             sent == SyncCall(l, "get_notion_user", "GET", "notion", "p1", EmptyDict,
                              IF outcome = "raise" THEN 0 ELSE status)
             user_data == extract_user_properties(page)
             got == [l EXCEPT !.user_data = user_data]
         IN  /\ syncCalls' = Append(syncCalls, sent)
             /\ IF outcome = "raise" THEN Return(w, l, "raised")
                ELSE IF status # 200 THEN Return(w, l, "False")
                ELSE IF ~HasRequiredFields(user_data) THEN Return(w, got, "False")
                ELSE IF AlreadySynced(user_data)
                THEN Goto(w, [got EXCEPT !.path = "update",
                                         !.hubspot_user_id = user_data.hubspot_user_id],
                          "update")
                ELSE Goto(w, [got EXCEPT !.path = "create"], "create")

\* update_user_in_hubspot
UpdateUserInHubspot(w) ==
    /\ syncPc[w] = "update"
    /\ UNCHANGED <<syncFrame, page>>
    /\ LET l == syncLoc[w]
           body == UpdatePayload(l.user_data)
       IN  IF ~tokenSet THEN Return(w, l, "False") /\ UNCHANGED <<hub, syncCalls>>
           ELSE IF IsEmptyDict(body)
           THEN Goto(w, l, "write_back") /\ UNCHANGED <<hub, syncCalls>>
           ELSE \E outcome \in Outcomes :
                  LET status == HubStatusOf(hub, l.hubspot_user_id, outcome)
                      sent == SyncCall(l, "update_user_in_hubspot", "PATCH", "users",
                                       l.hubspot_user_id, body,
                                       IF outcome = "raise" THEN 0 ELSE status)
                  IN  /\ syncCalls' = Append(syncCalls, sent)
                      /\ IF outcome = "raise"
                         THEN Return(w, l, "raised") /\ UNCHANGED hub
                         ELSE /\ hub' = IF status = 200
                                        THEN [hub EXCEPT ![l.hubspot_user_id] =
                                                 PatchedHubUser(@, body)]
                                        ELSE hub
                              /\ IF status = 200 THEN Goto(w, l, "write_back")
                                 ELSE Return(w, l, "False")

\* create_user_in_hubspot up to the answer to its POST
CreateUserInHubspot(w) ==
    /\ syncPc[w] = "create"
    /\ UNCHANGED <<syncFrame, page>>
    /\ LET l == syncLoc[w]
           body == CreatePayload(l.user_data)
       IN  IF ~tokenSet \/ l.user_data.email = ""
           THEN Return(w, l, "False") /\ UNCHANGED <<hub, syncCalls>>
           ELSE \E outcome \in Outcomes :
                  LET status == CreateStatusOf(hub, l.user_data.email, outcome)
                      id == NewUserId(hub)
                      sent == SyncCall(l, "create_user_in_hubspot", "POST", "users",
                                       "", body, IF outcome = "raise" THEN 0 ELSE status)
                  IN  /\ syncCalls' = Append(syncCalls, sent)
                      /\ IF outcome = "raise"
                         THEN Return(w, l, "raised") /\ UNCHANGED hub
                         ELSE IF Created(status)
                         THEN /\ hub' = (id :> CreatedHubUser(body)) @@ hub
                              /\ Goto(w, [l EXCEPT !.hubspot_user_id = id,
                                                   !.created = TRUE], "write_back")
                         ELSE IF AlreadyExists(status)
                         THEN Goto(w, l, "lookup") /\ UNCHANGED hub
                         ELSE Return(w, l, "False") /\ UNCHANGED hub

\* get_hubspot_user_id_by_email, called by create_user_in_hubspot
GetHubspotUserIdByEmail(w) ==
    /\ syncPc[w] = "lookup"
    /\ UNCHANGED <<syncFrame, page, hub>>
    /\ LET l == syncLoc[w]
       IN  IF ~tokenSet THEN Return(w, l, "False") /\ UNCHANGED syncCalls
           ELSE \E outcome \in Outcomes :
                  LET status == IF outcome = "server_error" THEN 500 ELSE 200
                      found == UsersWithEmail(hub, l.user_data.email)
                      sent == SyncCall(l, "get_hubspot_user_id_by_email", "GET", "users",
                                       "", "email" :> l.user_data.email,
                                       IF outcome = "raise" THEN 0 ELSE status)
                  IN  /\ syncCalls' = Append(syncCalls, sent)
                      /\ IF outcome = "raise" THEN Return(w, l, "raised")
                         ELSE IF status = 200 /\ found # {}
                         THEN Goto(w, [l EXCEPT !.hubspot_user_id =
                                                    CHOOSE id \in found : TRUE,
                                                !.created = TRUE,
                                                !.path = "conflict"], "write_back")
                         ELSE Return(w, l, "False")

\* update_notion_sync_status and the return of sync_user_to_hubspot
UpdateNotionSyncStatus(w) ==
    /\ syncPc[w] = "write_back"
    /\ UNCHANGED <<syncFrame, hub>>
    /\ LET l == syncLoc[w]
           body == StatusPayload(l.hubspot_user_id, l.created)
       IN  IF ~notionToken THEN Return(w, l, "True") /\ UNCHANGED <<page, syncCalls>>
           ELSE \E outcome \in Outcomes :
                  LET status == NotionStatusOf(outcome)
                      sent == SyncCall(l, "update_notion_sync_status", "PATCH", "notion",
                                       "p1", body, IF outcome = "raise" THEN 0 ELSE status)
                  IN  /\ syncCalls' = Append(syncCalls, sent)
                      /\ IF outcome = "raise"
                         THEN Return(w, l, "raised") /\ UNCHANGED page
                         ELSE /\ page' = IF status = 200 THEN PatchedPage(page, body)
                                         ELSE page
                              /\ Return(w, l, "True")

SyncNext ==
    \/ \E w \in DOMAIN syncPc : SyncUserToHubspot(w)
    \/ \E w \in DOMAIN syncPc : GetNotionUser(w)
    \/ \E w \in DOMAIN syncPc : UpdateUserInHubspot(w)
    \/ \E w \in DOMAIN syncPc : CreateUserInHubspot(w)
    \/ \E w \in DOMAIN syncPc : GetHubspotUserIdByEmail(w)
    \/ \E w \in DOMAIN syncPc : UpdateNotionSyncStatus(w)

SyncSpec == SyncInit /\ [][SyncNext]_vars

(***************************************************************************)
(* Two callers of sync_user_to_hubspot for the same page at once (the      *)
(* webhook server handling two requests, or the server and the batch       *)
(* script), the page not yet marked as created.  Each request to Notion    *)
(* and to the CRM is one step; the steps of the two callers interleave.    *)
(***************************************************************************)
ConcurrentInit ==
    /\ tokenSet \in BOOLEAN
    /\ notionToken \in BOOLEAN
    /\ page \in { p \in Pages : ~p.created }
    /\ hub \in Hubs
    /\ syncPc = [w \in {1, 2} |-> "idle"]
    /\ syncLoc = [w \in {1, 2} |-> SyncLocInit(w, 0)]
    /\ syncRuns = << >>
    /\ syncCalls = << >>
    /\ users = [id \in RecordIds |-> Missing]
    /\ contacts = [id \in RecordIds |-> Missing]
    /\ payload = NonMapping
    /\ responses = << >>
    /\ pc = "idle"
    /\ idx = 0
    /\ results = << >>
    /\ loc = NoLoc
    /\ elems = << >>
    /\ calls = << >>
    /\ NormIdle
    /\ EdgeIdle

\* each of the two callers calls sync_user_to_hubspot once
ConcurrentCall(w) ==
    /\ syncLoc[w].run = 0
    /\ SyncUserToHubspot(w)

ConcurrentNext ==
    \/ \E w \in DOMAIN syncPc : ConcurrentCall(w)
    \/ \E w \in DOMAIN syncPc : GetNotionUser(w)
    \/ \E w \in DOMAIN syncPc : UpdateUserInHubspot(w)
    \/ \E w \in DOMAIN syncPc : CreateUserInHubspot(w)
    \/ \E w \in DOMAIN syncPc : GetHubspotUserIdByEmail(w)
    \/ \E w \in DOMAIN syncPc : UpdateNotionSyncStatus(w)

ConcurrentSpec == ConcurrentInit /\ [][ConcurrentNext]_vars

(***************************************************************************)
(* notion_webhook_handler.py: handle_notion_webhook is given one event of  *)
(* the workspace and, for a page of the users database, calls              *)
(* sync_user_to_hubspot.  A JSON object is Mapping(dict) and any other     *)
(* JSON value (null) is NonMapping; .get on it raises AttributeError.      *)
(***************************************************************************)
NoDict == Mapping(EmptyDict)

\* str.replace("-", "") over the database ids of the model
RemoveHyphens(id) == IF id = "db-1" THEN "db1" ELSE id

NotionEntities ==
    { << >>, <<NonMapping>>,
      <<Mapping(("type" :> "page") @@ ("id" :> "p1"))>>,
      <<Mapping("type" :> "page")>>,
      <<Mapping(("type" :> "database") @@ ("id" :> "d1"))>> }

NotionParents ==
    { Mapping(("type" :> "database_id") @@ ("id" :> "db-1")),
      Mapping(("type" :> "database") @@ ("database_id" :> "db2")),
      Mapping("type" :> "page_id"),
      NonMapping }

NotionData ==
    { << >>, <<NonMapping>>, <<Mapping("object" :> NonMapping)>> }
        \cup { <<Mapping("parent" :> parent)>> : parent \in NotionParents }
        \cup { <<Mapping("object" :> Mapping(("id" :> "p1") @@ ("parent" :> parent)))>> :
                 parent \in NotionParents }

NotionEvents ==
    { Mapping(("type" :> ty) @@ Opt("entity", entity) @@ Opt("data", data)) :
        ty \in {"page.updated", "database.updated"},
        entity \in NotionEntities,
        data \in NotionData }
        \cup {NonMapping}

\* is_user_page for an event that is a JSON object: "True", "False", or
\* "raise" when an attribute error leaves it
is_user_page(event, USERS_DATABASE_ID) ==
    LET event_data == Get(event, "data", NoDict)
        entity == Get(event, "entity", NoDict)
    IN  IF entity.kind # "dict" THEN "raise"
        ELSE IF Get(entity.ev, "type", "") # "page" THEN "False"
        ELSE IF event_data.kind # "dict" THEN "raise"
        ELSE LET first == Get(event_data.ev, "parent", NoDict)
                 page_obj == Get(event_data.ev, "object", NoDict)
                 falsy == first = NonMapping \/ first = NoDict
             IN  IF falsy /\ page_obj.kind # "dict" THEN "raise"
                 ELSE LET parent == IF falsy THEN Get(page_obj.ev, "parent", NoDict)
                                    ELSE first
                      IN  IF parent.kind # "dict" THEN "raise"
                          ELSE IF Get(parent.ev, "type", "") \in {"database", "database_id"}
                          THEN LET database_id == OrStr(Get(parent.ev, "id", ""),
                                                        Get(parent.ev, "database_id", ""))
                               IN  IF database_id = "" THEN "False"
                                   ELSE IF USERS_DATABASE_ID # ""
                                   THEN IF RemoveHyphens(database_id)
                                             = RemoveHyphens(USERS_DATABASE_ID)
                                        THEN "True" ELSE "False"
                                   ELSE "True"
                          ELSE "False"

\* what sync_user_to_hubspot's outcome becomes in handle_notion_webhook
SyncOutcome_Uncaught(result) ==
    IF result = "True" THEN [status |-> "success", message |-> "synced"]
    ELSE IF result = "False" THEN [status |-> "error", message |-> "Failed to sync user"]
    ELSE [status |-> "raised", message |-> "none"]

SyncOutcome(result) ==
    IF result = "True" THEN [status |-> "success", message |-> "synced"]
    ELSE IF result = "False" THEN [status |-> "error", message |-> "Failed to sync user"]
    ELSE [status |-> "error", message |-> "Exception syncing user"]

\* handle_notion_webhook up to the call of sync_user_to_hubspot: the result
\* it returns, "raised" when an exception leaves it, or "sync" when it goes
\* on to the call
BeforeSync(event, USERS_DATABASE_ID) ==
    IF event.kind # "dict" THEN [status |-> "raised", message |-> "none"]
    ELSE IF Get(event.ev, "type", "")
              \notin {"page.created", "page.updated", "page.properties_updated"}
    THEN [status |-> "ignored", message |-> "Event type not handled"]
    ELSE LET entity == Get(event.ev, "entity", NoDict)
             event_data == Get(event.ev, "data", NoDict)
             from_entity == entity.kind = "dict" /\ Get(entity.ev, "type", "") = "page"
             page_obj == IF event_data.kind = "dict"
                         THEN Get(event_data.ev, "object", NoDict) ELSE NonMapping
         IN  IF entity.kind # "dict" THEN [status |-> "raised", message |-> "none"]
             ELSE IF ~from_entity /\ page_obj.kind # "dict"
             THEN [status |-> "raised", message |-> "none"]
             ELSE LET page_id == IF from_entity THEN Get(entity.ev, "id", "")
                                 ELSE Get(page_obj.ev, "id", "")
                      is_user == is_user_page(event.ev, USERS_DATABASE_ID)
                  IN  IF page_id = ""
                      THEN [status |-> "error", message |-> "No page ID found in event"]
                      ELSE IF is_user = "raise"
                      THEN [status |-> "raised", message |-> "none"]
                      ELSE IF is_user = "False"
                      THEN [status |-> "ignored", message |-> "Not a user page"]
                      ELSE [status |-> "sync", message |-> "none"]

NotionInit ==
    /\ notion \in [event : NotionEvents, users_db : {"", "db1"}, stage : {"received"},
                   status : {"none"}, message : {"none"}]
    /\ tokenSet \in BOOLEAN
    /\ notionToken = TRUE
    /\ page \in { p \in Pages : p.email = "e1" /\ p.first = jo /\ p.user_id # "u9" }
    /\ hub \in Hubs
    /\ syncPc = [w \in {1} |-> "idle"]
    /\ syncLoc = [w \in {1} |-> SyncLocInit(w, 0)]
    /\ syncRuns = << >>
    /\ syncCalls = << >>
    /\ users = [id \in RecordIds |-> Missing]
    /\ contacts = [id \in RecordIds |-> Missing]
    /\ payload = NonMapping
    /\ responses = << >>
    /\ pc = "idle"
    /\ idx = 0
    /\ results = << >>
    /\ loc = NoLoc
    /\ elems = << >>
    /\ calls = << >>
    /\ inbox = << >>
    /\ NormIdle

notionFrame == <<tokenSet, handlerVars, syncVars, normVars, inbox>>

\* handle_notion_webhook from its entry to the call of sync_user_to_hubspot
HandleNotionWebhook ==
    /\ notion.stage = "received"
    /\ LET r == BeforeSync(notion.event, notion.users_db)
       IN  notion' = IF r.status = "sync" THEN [notion EXCEPT !.stage = "sync"]
                     ELSE [notion EXCEPT !.stage = "done", !.status = r.status,
                                         !.message = r.message]
    /\ UNCHANGED notionFrame

\* the call sync_user_to_hubspot(page_id) inside the try
CallSync ==
    /\ notion.stage = "sync"
    /\ syncLoc[1].run = 0
    /\ SyncUserToHubspot(1)

\* the call returned or raised: the result handle_notion_webhook returns
SyncReturns ==
    /\ notion.stage = "sync"
    /\ syncPc[1] = "done"
    /\ LET r == SyncOutcome(syncLoc[1].result)
       IN  notion' = [notion EXCEPT !.stage = "done", !.status = r.status,
                                    !.message = r.message]
    /\ UNCHANGED notionFrame

NotionNext ==
    \/ HandleNotionWebhook
    \/ CallSync
    \/ GetNotionUser(1)
    \/ UpdateUserInHubspot(1)
    \/ CreateUserInHubspot(1)
    \/ GetHubspotUserIdByEmail(1)
    \/ UpdateNotionSyncStatus(1)
    \/ SyncReturns

NotionSpec == NotionInit /\ [][NotionNext]_vars

(***************************************************************************)
(* capitalize_name on its own: a name over a small alphabet, given to the  *)
(* copy in hubspot_webhook_handler.py, to the copy in                      *)
(* notion_hubspot_sync.py, and to the first copy a second time.            *)
(***************************************************************************)
\* longest name
MaxNameLen == 3

Alphabet == {"a", "B", " ", "\t", "ß"}

NameInputs == UNION { [1..n -> Alphabet] : n \in 0..MaxNameLen }

NormInit ==
    /\ norm \in [name : NameInputs, applied : {{}}, out : {NoName},
                 out_sync : {NoName}, again : {NoName}]
    /\ tokenSet = TRUE
    /\ users = [id \in RecordIds |-> Missing]
    /\ contacts = [id \in RecordIds |-> Missing]
    /\ payload = NonMapping
    /\ responses = << >>
    /\ pc = "idle"
    /\ idx = 0
    /\ results = << >>
    /\ loc = NoLoc
    /\ elems = << >>
    /\ calls = << >>
    /\ SyncIdle
    /\ EdgeIdle

CapitalizeName ==
    /\ "handler" \notin norm.applied
    /\ norm' = [norm EXCEPT !.out = capitalize_name(norm.name),
                            !.applied = @ \cup {"handler"}]
    /\ UNCHANGED <<tokenSet, handlerVars, syncVars, edgeVars>>

CapitalizeNameSync ==
    /\ "sync" \notin norm.applied
    /\ norm' = [norm EXCEPT !.out_sync = capitalize_name_sync(norm.name),
                            !.applied = @ \cup {"sync"}]
    /\ UNCHANGED <<tokenSet, handlerVars, syncVars, edgeVars>>

CapitalizeNameAgain ==
    /\ "handler" \in norm.applied
    /\ "again" \notin norm.applied
    /\ norm' = [norm EXCEPT !.again = capitalize_name(norm.out),
                            !.applied = @ \cup {"again"}]
    /\ UNCHANGED <<tokenSet, handlerVars, syncVars, edgeVars>>

NormNext ==
    \/ CapitalizeName
    \/ CapitalizeNameSync
    \/ CapitalizeNameAgain

NormSpec == NormInit /\ [][NormNext]_vars

(***************************************************************************)
(* Properties.                                                             *)
(***************************************************************************)
Last(seq) == seq[Len(seq)]

\* the handler is between classification and its return
PastClassification ==
    pc \in {"get_user", "get_contact", "have_user", "update", "put", "patch_contact"}

\* the events handled in this delivery: the finished ones and the current one
Handled == { elems[i] : i \in 1..Len(elems) } \cup (IF PastClassification THEN {loc} ELSE {})

Finished == { elems[i] : i \in 1..Len(elems) }

CallsOf(h) == SelectSeq(calls, LAMBDA c : c.elem = h.idx)
FetchCalls(h) == SelectSeq(calls, LAMBDA c : c.elem = h.idx /\ c.fn = "get_hubspot_user")
WriteCalls(h) ==
    SelectSeq(calls, LAMBDA c : c.elem = h.idx /\ c.fn = "update_hubspot_user_name")

\* every request of this delivery was served from the records
FaultFree == \A i \in 1..Len(calls) : calls[i].status \in {200, 404}

MappingItems == { i \in 1..Len(payload.items) : payload.items[i].kind = "dict" }

\* C1: a property change (subscriptionType "object.propertychange" in any
\* case, with an objectId) of a property other than first and last name is
\* answered ignored, and no CRM request is sent for it.
NonNameChange(event) ==
    /\ Lower(Get(event, "subscriptionType", "")) = "object.propertychange"
    /\ Has(event, "objectId")
    /\ Lower(Get(event, "propertyName", "")) \notin NameProps

C1_NonNameChangeIgnored ==
    /\ \A h \in Finished :
         NonNameChange(h.event) => h.status = "ignored" /\ CallsOf(h) = << >>
    /\ PastClassification => ~NonNameChange(loc.event)

\* C2: when a delivery returned success, a second delivery of the same
\* payload, served without failure and with no other change to the
\* records, returns ignored and sends no write.
C2_SecondDeliveryIgnored ==
    (/\ pc = "done"
     /\ Len(responses) >= 2
     /\ responses[Len(responses) - 1].status = "success"
     /\ FaultFree)
    => /\ Last(responses).status = "ignored"
       /\ \A i \in 1..Len(calls) : calls[i].fn # "update_hubspot_user_name"

\* C3: an exception raised while one element of an array is processed does
\* not keep the other elements from being processed, nor the summary from
\* being returned.
C3_BatchIsolation ==
    (pc = "done" /\ payload.kind = "list")
    => /\ Last(responses).kind = "aggregate"
       /\ { h.idx : h \in Finished } = MappingItems

\* the outcomes of the handled elements, counted from the events themselves
StatusCount(st) == Cardinality({ i \in 1..Len(elems) : elems[i].status = st })

StatusRule(r) ==
    /\ r.success_count = StatusCount("success")
    /\ r.ignored_count = StatusCount("ignored")
    /\ r.error_count = StatusCount("error")
    /\ r.status = "success" <=> r.success_count > 0
    /\ r.status = "ignored" <=> (r.success_count = 0 /\ r.error_count = 0)
    /\ r.status = "error" <=> (r.success_count = 0 /\ r.error_count > 0)

\* C4 as stated: the three counts of the summary add up to the number of
\* elements of the array, and the status is success if an element succeeded,
\* else ignored if none failed, else error.
C4_CountsCoverAllElements ==
    (pc = "done" /\ Last(responses).kind = "aggregate")
    => /\ Last(responses).success_count + Last(responses).ignored_count
            + Last(responses).error_count = Len(payload.items)
       /\ StatusRule(Last(responses))

\* C4 amended: the three counts add up to the number of elements of the
\* array that are mappings (the others are skipped and counted nowhere), and
\* the status is success if an element succeeded, else ignored if none
\* failed, else error.
C4_CountsCoverMappings ==
    (pc = "done" /\ Last(responses).kind = "aggregate")
    => /\ Last(responses).success_count + Last(responses).ignored_count
            + Last(responses).error_count = Cardinality(MappingItems)
       /\ StatusRule(Last(responses))

C4_Witness ==
    /\ pc = "done"
    /\ Last(responses).kind = "aggregate"
    /\ Cardinality(MappingItems) < Len(payload.items)
    /\ Last(responses).success_count = 1
    /\ Last(responses).status = "success"

\* C5 as stated: a payload that is neither a mapping nor an array of
\* mappings only is answered error at once, with no CRM request.
Malformed ==
    \/ payload.kind = "other"
    \/ payload.kind = "list" /\ Cardinality(MappingItems) < Len(payload.items)

C5_MalformedRejected ==
    /\ Malformed => calls = << >> /\ elems = << >> /\ ~PastClassification
    /\ (Malformed /\ pc = "done") => Last(responses).status = "error"

\* C5 amended: a payload that is neither a mapping nor an array is answered
\* error at once, with no CRM request; in an array the elements that are not
\* mappings are skipped and the mappings are handled.
C5_NonContainerRejected ==
    /\ payload.kind = "other"
         => /\ calls = << >> /\ elems = << >> /\ pc \in {"idle", "done"}
            /\ pc = "done" => /\ Last(responses).kind = "single"
                              /\ Last(responses).status = "error"
    /\ payload.kind = "list"
         => /\ { h.idx : h \in Handled } \subseteq MappingItems
            /\ (pc = "done" /\ Last(responses).kind = "aggregate")
                 => { h.idx : h \in Finished } = MappingItems

C5_Witness ==
    /\ payload.kind = "other"
    /\ pc = "done"
    /\ Last(responses).status = "error"

\* C6: an event for which the classification yields no user id is answered
\* ignored, never error, and no CRM request is sent for it.
C6_UnclassifiedIgnored ==
    /\ \A h \in Finished :
         Classify(h.event).uid = "" => h.status = "ignored" /\ CallsOf(h) = << >>
    /\ PastClassification => Classify(loc.event).uid # ""

C6_Witness ==
    \E h \in Finished :
        /\ Has(h.event, "objectType")
        /\ Classify(h.event).uid = ""
        /\ h.status = "ignored"

\* C7: an event with a contactId, or with an eventType that starts with
\* "contact.", that is not a property change, gets the contactId (else the
\* objectId) as its id and is fetched and written as a contact: no request
\* goes to the Users API.
ContactShape(event) ==
    /\ Has(event, "contactId") \/ StartsWith(Lower(Get(event, "eventType", "")), "contact.")
    /\ Lower(Get(event, "subscriptionType", "")) # "object.propertychange"
    /\ OrStr(Get(event, "contactId", ""), Get(event, "objectId", "")) # ""

C7_ContactShapeIsContact ==
    \A h \in Handled :
        ContactShape(h.event)
        => /\ h.user_id = OrStr(Get(h.event, "contactId", ""), Get(h.event, "objectId", ""))
           /\ h.is_contact
           /\ \A i \in 1..Len(calls) : calls[i].elem = h.idx => calls[i].api = "contacts"

\* C8: a first or last name that the fetch returned non-empty is the current
\* name, whatever the hints of the event say.
C8_FetchedNamesWin ==
    \A h \in Finished :
        (~IsEmptyDict(h.user) /\ h.status # "raised")
        => /\ FetchedNames(h.user)[1] # NoName => h.current[1] = FetchedNames(h.user)[1]
           /\ FetchedNames(h.user)[2] # NoName => h.current[2] = FetchedNames(h.user)[2]

\* C9: update_hubspot_user_name is called at most once per event, and only
\* with a non-empty current name and a normalized pair that differs from the
\* current pair; with both names empty or nothing to change the event is
\* answered ignored and no write request is sent.
C9_AtMostOneWrite ==
    \A h \in Handled :
        /\ h.updates <= 1
        /\ h.updates = 1
             => /\ h.current # <<NoName, NoName>>
                /\ h.normalized # h.current
                /\ h.normalized = normalize_user_name(h.current[1], h.current[2])
        /\ h.updates = 0 => WriteCalls(h) = << >>
        /\ (/\ h \in Finished
            /\ ~IsEmptyDict(h.user)
            /\ \/ h.current = <<NoName, NoName>>
               \/ normalize_user_name(h.current[1], h.current[2]) = h.current)
             => h.status = "ignored" /\ WriteCalls(h) = << >>

C9_Witness ==
    \E h \in Finished :
        /\ h.updates = 1
        /\ Len(WriteCalls(h)) >= 1
        /\ h.status = "success"

\* C10: for a contact get_hubspot_user asks the Contacts API only; otherwise
\* it asks the Users API first and the Contacts API exactly when the Users
\* API answered 404; a contact that is found is returned with its firstname
\* and lastname as the names.
C10_FetchOrder ==
    /\ \A h \in Handled :
         LET g == FetchCalls(h)
         IN  /\ (tokenSet /\ h.fetch_done) => Len(g) >= 1
             /\ h.is_contact
                  => Len(g) <= 1 /\ \A i \in 1..Len(g) : g[i].api = "contacts"
             /\ ~h.is_contact
                  => /\ Len(g) <= 2
                     /\ Len(g) >= 1 => g[1].api = "users" /\ g[1].method = "GET"
                     /\ Len(g) = 2 => g[1].status = 404 /\ g[2].api = "contacts"
                     /\ (h.fetch_done /\ Len(g) >= 1 /\ g[1].status = 404) => Len(g) = 2
    /\ (pc = "have_user" /\ calls # << >> /\ Last(calls).api = "contacts"
          /\ Last(calls).status = 200)
         => FetchedNames(loc.user)
              = <<contacts[loc.user_id].first, contacts[loc.user_id].last>>

C10_Witness ==
    /\ pc = "have_user"
    /\ ~loc.is_contact
    /\ Len(FetchCalls(loc)) = 2
    /\ Last(calls).status = 200
    /\ FetchedNames(loc.user)[1] # NoName

\* C11: for a record that is not a contact update_hubspot_user_name first
\* sends PATCH to the Users API; it sends PUT to the Users API exactly when
\* that PATCH was answered 405; it sends PATCH to the Contacts API exactly
\* when the last Users API answer was 404; it returns true exactly when the
\* last answer received is a success (200).
C11_WriteOrder ==
    \A h \in Handled :
        LET w == WriteCalls(h)
        IN  (~h.is_contact /\ h.updates = 1 /\ tokenSet)
            => /\ Len(w) <= 3
               /\ (h \in Finished) => Len(w) >= 1
               /\ Len(w) >= 1 => w[1].method = "PATCH" /\ w[1].api = "users"
               /\ \A i \in 2..Len(w) :
                    /\ (w[i].api = "users")
                         => i = 2 /\ w[i].method = "PUT" /\ w[1].status = 405
                    /\ (w[i].api = "contacts")
                         => /\ i = Len(w)
                            /\ w[i].method = "PATCH"
                            /\ w[i - 1].api = "users"
                            /\ w[i - 1].status = 404
               /\ (h \in Finished /\ h.status # "raised")
                    => /\ w[1].status = 405 => Len(w) >= 2 /\ w[2].method = "PUT"
                       /\ \A i \in 1..Len(w) :
                            (w[i].api = "users" /\ w[i].status = 404) => i < Len(w)
                       /\ h.status = "success" <=> Last(w).status = 200
                       /\ h.status = "error" <=> Last(w).status # 200

C11_Witness ==
    \E h \in Finished :
        LET w == WriteCalls(h)
        IN  /\ ~h.is_contact
            /\ Len(w) = 3
            /\ w[1].status = 405
            /\ w[2].method = "PUT" /\ w[2].status = 404
            /\ w[3].api = "contacts" /\ w[3].status = 200
            /\ h.status = "success"

\* C13 as stated: a lookup that is not found is retried on the other
\* endpoint in both directions: a user id not found by the Users API is
\* retried on the Contacts API, and a contact id not found by the Contacts
\* API is retried on the Users API.
C13_FallbackBothWays ==
    \A h \in Finished :
        LET g == FetchCalls(h)
        IN  (h.status # "raised" /\ Len(g) >= 1 /\ g[1].status = 404)
            => /\ Len(g) = 2
               /\ g[2].api = (IF h.is_contact THEN "users" ELSE "contacts")

\* C13, amended: the retry exists in one direction only.  A user id not
\* found by the Users API is retried on the Contacts API, for the fetch and
\* for the write, and the caller gets the result of the retry; a contact id
\* is only ever sent to the Contacts API, and when that API answers 404 the
\* event ends in an error.
C13_FallbackUserToContact ==
    \A h \in Finished :
        LET g == FetchCalls(h)
            w == WriteCalls(h)
        IN  h.status # "raised"
            => /\ (~h.is_contact /\ Len(g) >= 1 /\ g[1].status = 404)
                    => /\ Len(g) = 2
                       /\ g[2].api = "contacts"
                       /\ IsEmptyDict(h.user) <=> g[2].status # 200
                       /\ g[2].status = 200 => h.status # "error" \/ w # << >>
               /\ ~h.is_contact
                    => \A i \in 1..Len(w) :
                         (w[i].api = "users" /\ w[i].status = 404)
                           => /\ Len(w) = i + 1
                              /\ w[i + 1].api = "contacts"
                              /\ h.status = "success" <=> w[i + 1].status = 200
               /\ h.is_contact
                    => /\ \A i \in 1..Len(CallsOf(h)) : CallsOf(h)[i].api = "contacts"
                       /\ (Len(g) >= 1 /\ g[1].status = 404) => h.status = "error"

\* a contact id the Contacts API does not know while the Users API does
C13_Witness ==
    \E h \in Finished :
        /\ h.is_contact
        /\ Len(FetchCalls(h)) = 1
        /\ FetchCalls(h)[1].status = 404
        /\ users[h.user_id] # Missing
        /\ h.status = "error"

(***************************************************************************)
(* Properties of sync_user_to_hubspot.                                     *)
\* the event got past classification: a fetch was attempted for it
Processed(h) ==
    \/ h.fetch_done
    \/ CallsOf(h) # << >>
    \/ PastClassification /\ h = loc

\* the record kind as read from the event alone
KindByEvent(event) ==
    \/ Get(event, "objectTypeId", "") = "0-1"
    \/ Contains(Lower(Get(event, "objectType", "")), "contact")

\* the first request of a kind (fetch or write) goes to the Users API
UsersFirst(g) == Len(g) >= 1 => g[1].api = "users"

\* C23: a classified event is a CONTACT, every request for it going to the
\* Contacts API, if its objectTypeId is "0-1" or its objectType contains
\* "contact" in any case; every other classified event is a USER, its fetch
\* and its write each asking the Users API first.
C23_KindFromEvent ==
    \A h \in Handled :
        Processed(h)
        => /\ h.is_contact <=> KindByEvent(h.event)
           /\ KindByEvent(h.event)
                => \A i \in 1..Len(calls) : calls[i].elem = h.idx => calls[i].api = "contacts"
           /\ ~KindByEvent(h.event)
                => UsersFirst(FetchCalls(h)) /\ UsersFirst(WriteCalls(h))

\* C23 (amended): a classified event is a CONTACT, every request for it going
\* to the Contacts API, if the objectTypeId of its hints or of the event is
\* "0-1" or the objectType of the event contains "contact" in any case;
\* every other classified event is a USER, its fetch and its write each
\* asking the Users API first.
C23_KindFromHintsOrEvent ==
    \A h \in Handled :
        LET contact == \/ KindByEvent(h.event)
                       \/ Get(h.user_data, "objectTypeId", "") = "0-1"
        IN  Processed(h)
            => /\ h.is_contact <=> contact
               /\ contact
                    => \A i \in 1..Len(calls) :
                         calls[i].elem = h.idx => calls[i].api = "contacts"
               /\ ~contact
                    => UsersFirst(FetchCalls(h)) /\ UsersFirst(WriteCalls(h))

C23_Witness ==
    \E h \in Finished :
        /\ Contains(Lower(Get(h.event, "objectType", "")), "contact")
        /\ Get(h.event, "objectTypeId", "") # "0-1"
        /\ h.status = "success"
        /\ Len(WriteCalls(h)) = 1
        /\ WriteCalls(h)[1].api = "contacts"

\* the event reaches the typed-object rule (Format 5): no earlier rule gave
\* an id, and the objectType is one of the three kinds
TypedObject(event) ==
    /\ FirstChain(event).uid = ""
    /\ ~Has(event, "objectId") /\ ~Has(event, "userId") /\ ~Has(event, "id")
    /\ Has(event, "objectType")
    /\ Upper(event["objectType"]) \in {"USER", "USER_DEFINED", "CONTACT"}

FirstKeys == {"firstName", "firstname"}
LastKeys == {"lastName", "lastname"}

\* C27: a write request of update_hubspot_user_name holds name fields only,
\* the first (last) name exactly when its normalized value is non-empty, so a
\* name that is empty in the current record is left out; no field it holds is
\* the empty string, and every value is a fixed point of capitalize_name.
C27_NeverBlanksAName ==
    \A h \in Handled :
        \A i \in 1..Len(WriteCalls(h)) :
            LET body == WriteCalls(h)[i].body
            IN  /\ DOMAIN body \subseteq FirstKeys \cup LastKeys
                /\ DOMAIN body \cap FirstKeys # {} <=> h.normalized[1] # NoName
                /\ DOMAIN body \cap LastKeys # {} <=> h.normalized[2] # NoName
                /\ h.current[1] = NoName => DOMAIN body \cap FirstKeys = {}
                /\ h.current[2] = NoName => DOMAIN body \cap LastKeys = {}
                /\ \A k \in DOMAIN body :
                     body[k] # NoName /\ capitalize_name(body[k]) = body[k]

C27_Witness ==
    \E h \in Finished :
        /\ h.current[2] = NoName
        /\ h.status = "success"
        /\ Len(WriteCalls(h)) = 1
        /\ WriteCalls(h)[1].api = "users"
        /\ DOMAIN WriteCalls(h)[1].body = {"firstName"}

\* the event states a condition the handler is to ignore: no rule finds an
\* id in it, or it reports the change of a property that is not a name
Ignorable(event) == Classify(event).uid = "" \/ NonNameChange(event)

\* C21: the route answers 400 to an empty body, 200 to a POST whose handler
\* outcome is success or ignored and 500 to one whose outcome is error; a
\* POST of an ignorable event, served without a fault, is never answered 500.
C21_HttpBoundary ==
    pc = "done"
    => LET r == Last(responses)
           code == hubspot_webhook(payload, r)
       IN  /\ EmptyBody(payload) => code = 400
           /\ (~EmptyBody(payload) /\ r.kind # "exception")
                => /\ r.status \in {"success", "ignored"} => code = 200
                   /\ r.status = "error" => code = 500
           /\ (payload.kind = "dict" /\ ~EmptyBody(payload) /\ FaultFree
                 /\ Ignorable(payload.ev))
                => code # 500

\* C26: with every accepted write echoed back as property-change events
\* and nobody else changing the record, the handler writes the record at
\* most once: no delivery after one that ended in a write ends in a write.
C26_WritesOnce ==
    \A i, j \in 1..Len(responses) :
        (i < j /\ responses[i].status = "success") => responses[j].status # "success"

(***************************************************************************)
\* the calls of sync_user_to_hubspot that returned, and those under way
Returned == { syncRuns[i] : i \in 1..Len(syncRuns) }

Running ==
    { syncLoc[w] : w \in { v \in DOMAIN syncPc : syncPc[v] \notin {"idle", "done"} } }

RunCalls(r) == SelectSeq(syncCalls, LAMBDA c : c.worker = r.worker /\ c.run = r.run)

\* its requests to the CRM
CrmCalls(r) ==
    SelectSeq(syncCalls, LAMBDA c : c.worker = r.worker /\ c.run = r.run /\ c.api = "users")

\* get_notion_user returned the page to this call
Fetched(r) == RunCalls(r) # << >> /\ RunCalls(r)[1].status = 200

\* an answer that is neither a success nor not-found
UpstreamFailure(c) == c.status # 0 /\ c.status \notin 200..299 /\ c.status # 404

\* C12: whenever a collaborator API call (page read, CRM create, update or
\* lookup, page write-back) is answered with a status that is neither 2xx
\* nor 404, sync_user_to_hubspot returns failure, and the request that
\* failed is not sent again.
C12_UpstreamFailureIsError ==
    \A r \in Returned :
        LET k == RunCalls(r)
        IN  (r.result # "raised" /\ \E i \in 1..Len(k) : UpstreamFailure(k[i]))
            => /\ r.result = "False"
               /\ \A i, j \in 1..Len(k) :
                    (i < j /\ UpstreamFailure(k[i]))
                      => ~(k[j].method = k[i].method /\ k[j].api = k[i].api)

\* C14 as stated: once the page's HubSpot Created checkbox is true, no POST
\* to the Users API is sent for the page again.
C14_NoCreateOnceFlagged ==
    \A i, j \in 1..Len(syncCalls) :
        (i <= j /\ syncCalls[i].page.created) => syncCalls[j].method # "POST"

\* C14, amended: once the page has the HubSpot Created checkbox true and a
\* non-empty HubSpot User ID, both stay so and no POST to the Users API is
\* sent for the page again.
C14_NoCreateOnceSynced ==
    \A i, j \in 1..Len(syncCalls) :
        (i <= j /\ syncCalls[i].page.created /\ syncCalls[i].page.user_id # "")
          => /\ syncCalls[j].method # "POST"
             /\ syncCalls[j].page.created /\ syncCalls[j].page.user_id # ""
             /\ page.created /\ page.user_id # ""

\* a first sync created the user and flagged the page, a second one updated
C14_Witness ==
    \E i, j \in 1..Len(syncCalls) :
        /\ i < j
        /\ syncCalls[i].method = "POST" /\ syncCalls[i].status = 201
        /\ ~syncCalls[i].page.created
        /\ syncCalls[j].page.created
        /\ syncCalls[j].method = "PATCH" /\ syncCalls[j].api = "users"
        /\ syncCalls[j].status = 200

\* C15: for a page with an email, a name, the checkbox true and a non-empty
\* user id, sync_user_to_hubspot calls update_user_in_hubspot for that id:
\* every request it sends to the CRM is a PATCH of that user, never a POST,
\* and with the CRM token set it sends exactly one.
C15_UpdateNotCreate ==
    \A r \in Returned \cup Running :
        (/\ Fetched(r)
         /\ HasRequiredFields(r.user_data)
         /\ r.user_data.hubspot_created
         /\ r.user_data.hubspot_user_id # "")
          => /\ r.path = "update"
             /\ \A i \in 1..Len(CrmCalls(r)) :
                  /\ CrmCalls(r)[i].method = "PATCH"
                  /\ CrmCalls(r)[i].id = r.user_data.hubspot_user_id
             /\ (r \in Returned /\ tokenSet) => Len(CrmCalls(r)) = 1

C15_Witness ==
    \E r \in Returned :
        /\ r.user_data.hubspot_created
        /\ r.user_data.hubspot_user_id = "u1"
        /\ Len(CrmCalls(r)) = 1
        /\ CrmCalls(r)[1].method = "PATCH"
        /\ CrmCalls(r)[1].status = 200
        /\ r.result = "True"

\* C16: when the POST is answered 409, sync_user_to_hubspot looks the user
\* up by email and treats the sync as an update: the user that was found is
\* updated with the page's fields and its id is the one written back.
C16_ConflictIsUpdate ==
    \A r \in Returned :
        LET k == RunCalls(r)
            id == r.hubspot_user_id
        IN  (r.result # "raised"
             /\ \E i \in 1..Len(k) : k[i].method = "POST" /\ k[i].status = 409)
            => /\ \E i \in 1..Len(k) : k[i].fn = "get_hubspot_user_id_by_email"
               /\ (r.result = "True")
                    => /\ id \in DOMAIN hub
                       /\ hub[id].email = r.user_data.email
                       /\ r.user_data.first_name # NoName
                            => hub[id].first = r.user_data.first_name
                       /\ r.user_data.last_name # NoName
                            => hub[id].last = r.user_data.last_name
                       /\ Last(k).api = "notion"
                       /\ Last(k).body.user_id = id

\* C17: whenever sync_user_to_hubspot returns success, the page has the
\* checkbox true, the id of the user that was created or updated, and a
\* timestamp.
C17_SuccessIsWrittenBack ==
    \A w \in DOMAIN syncPc :
        (syncPc[w] = "done" /\ syncLoc[w].result = "True")
          => /\ page.created
             /\ page.user_id = syncLoc[w].hubspot_user_id
             /\ page.last_updated # ""

\* C18: when the page has no email, or neither a first nor a last name,
\* sync_user_to_hubspot returns failure and has sent nothing but the read of
\* the page: no request to the CRM and no write-back.
C18_InvalidRecordRejected ==
    \A r \in Returned \cup Running :
        (Fetched(r) /\ (r.user_data.email = ""
                        \/ (r.user_data.first_name = NoName
                            /\ r.user_data.last_name = NoName)))
          => /\ r \in Returned
             /\ r.result = "False"
             /\ Len(RunCalls(r)) = 1
             /\ RunCalls(r)[1].method = "GET" /\ RunCalls(r)[1].api = "notion"

\* a page with an email and no name, read with both tokens set
C18_Witness ==
    \E r \in Returned :
        /\ Fetched(r)
        /\ tokenSet
        /\ r.user_data.email = "e1"
        /\ r.user_data.first_name = NoName /\ r.user_data.last_name = NoName
        /\ r.result = "False"

(***************************************************************************)
(* Properties of capitalize_name.                                          *)
\* the tokens are configured, the page has an email and a name, and every
\* request so far was answered (no 5xx, no exception)
SoundSetting ==
    /\ tokenSet /\ notionToken
    /\ HasRequiredFields(extract_user_properties(page))
    /\ \A i \in 1..Len(syncCalls) : syncCalls[i].status \notin {0, 500}

WriteBacks == SelectSeq(syncCalls, LAMBDA c : c.fn = "update_notion_sync_status")

\* C25: two calls of sync_user_to_hubspot for one page that is not marked as
\* created, their requests interleaved in any order, leave exactly one CRM
\* user with the email of the page, both return success, and both write the
\* id of that user back to the page.
C25_OneUserOneId ==
    SoundSetting
    => /\ Cardinality(UsersWithEmail(hub, page.email)) <= 1
       /\ \A r \in Returned :
            /\ r.result = "True"
            /\ UsersWithEmail(hub, page.email) = {r.hubspot_user_id}
       /\ \A i \in 1..Len(WriteBacks) :
            /\ WriteBacks[i].body.user_id \in UsersWithEmail(hub, page.email)
            /\ WriteBacks[i].body.user_id = WriteBacks[1].body.user_id
       /\ Cardinality(Returned) = 2
            => /\ Len(WriteBacks) = 2
               /\ page.created
               /\ UsersWithEmail(hub, page.email) = {page.user_id}

\* both calls read the page before either created the user; one create is
\* answered 201 and the other 409
C25_Witness ==
    /\ SoundSetting
    /\ Cardinality(Returned) = 2
    /\ Len(syncCalls) >= 2
    /\ syncCalls[1].fn = "get_notion_user" /\ syncCalls[2].fn = "get_notion_user"
    /\ \E i, j \in 1..Len(syncCalls) :
         /\ syncCalls[i].fn = "create_user_in_hubspot" /\ syncCalls[i].status = 201
         /\ syncCalls[j].fn = "create_user_in_hubspot" /\ syncCalls[j].status = 409
         /\ syncCalls[i].worker # syncCalls[j].worker

(***************************************************************************)
(* Properties of handle_notion_webhook.                                    *)
(***************************************************************************)
\* some part of the event that the handler reads as an object is not one
BrokenEvent(event) ==
    \/ event.kind # "dict"
    \/ /\ Has(event.ev, "entity") /\ event.ev["entity"].kind # "dict"
    \/ /\ Has(event.ev, "data")
       /\ \/ event.ev["data"].kind # "dict"
          \/ /\ Has(event.ev["data"].ev, "object")
             /\ \/ event.ev["data"].ev["object"].kind # "dict"
                \/ /\ Has(event.ev["data"].ev["object"].ev, "parent")
                   /\ event.ev["data"].ev["object"].ev["parent"].kind # "dict"

\* C22: no exception leaves handle_notion_webhook; an exception raised
\* while the event is handled becomes a result with status error.
C22_NoExceptionEscapes ==
    notion.stage = "done"
    => /\ notion.status \in {"success", "ignored", "error"}
       /\ (syncRuns # << >> /\ syncRuns[1].result = "raised")
            => notion.status = "error" /\ notion.message = "Exception syncing user"

\* C22 (amended): an exception that leaves sync_user_to_hubspot is caught
\* by handle_notion_webhook and becomes a result with status error and the
\* message of the except branch; an exception leaves handle_notion_webhook
\* only before that call, and only for an event some part of which is not a
\* JSON object where the handler reads one.
C22_SyncExceptionsCaught ==
    notion.stage = "done"
    => /\ syncRuns # << >>
            => /\ notion.status \in {"success", "error"}
               /\ syncRuns[1].result = "raised"
                    => notion.status = "error" /\ notion.message = "Exception syncing user"
               /\ syncRuns[1].result = "False"
                    => notion.status = "error" /\ notion.message = "Failed to sync user"
               /\ syncRuns[1].result = "True" => notion.status = "success"
       /\ notion.status = "raised"
            => /\ syncCalls = << >>
               /\ BrokenEvent(notion.event)

C22_Witness ==
    /\ notion.stage = "done"
    /\ syncRuns # << >>
    /\ syncRuns[1].result = "raised"
    /\ notion.status = "error"
    /\ notion.message = "Exception syncing user"

(***************************************************************************)
\* the reference normalizer: a name of whitespace only (or empty) as it is;
\* otherwise the name from its first to its last non-whitespace character,
\* with the first of them upper-cased
ReferenceNormalizer(x) ==
    LET inked == { i \in 1..Len(x) : ~IsSpace(x[i]) }
    IN  IF inked = {} THEN x
        ELSE LET lo == CHOOSE i \in inked : \A j \in inked : i <= j
                 hi == CHOOSE i \in inked : \A j \in inked : j <= i
             IN  UpperChar(x[lo]) \o [i \in 1..(hi - lo) |-> x[lo + i]]

C20_Idempotent ==
    ("again" \in norm.applied /\ norm.name # << >> /\ Len(UpperChar(norm.name[1])) = 1)
      => norm.again = norm.out

C20_Witness ==
    /\ "again" \in norm.applied
    /\ norm.name = <<" ", "a", " ">>
    /\ norm.out = <<"A">>
    /\ norm.again = <<"A">>

=============================================================================
